---- MODULE Spec2Model ----
(***************************************************************************)
(* A model of the SQL text builders of dumpling's v4/export/sql.go: the    *)
(* range partitioner (buildWhereClauses, buildBetweenClause,               *)
(* buildCompareClause), the WHERE condition and SELECT query builders and  *)
(* the identifier escaping.  SQL text is a sequence of one-character       *)
(* strings, so that the text the code writes is compared character by      *)
(* character and is read back by a small SQL reader (EvalWhere) that       *)
(* applies SQL's operator precedence.                                      *)
(***************************************************************************)
EXTENDS Integers, Sequences, FiniteSets, TLC

\* ------------------------------------------------------------------ bounds
\* Largest number of ordering columns.
MaxCols == 3
\* Key values range over 0..MaxVal.
MaxVal == 2
\* Largest number of boundary tuples.
MaxBounds == 2
\* On a single ordering column: the largest number of boundaries and value.
MaxSingleBounds == 3
MaxSingleVal == 3
\* Largest length of an identifier name.
MaxNameLen == 2
\* Largest number of columns SHOW COLUMNS lists, and of tables of a database.
MaxFields == 2
MaxTables == 2

\* ------------------------------------------------------------- characters
Letters == <<"a", "b", "c", "d", "e", "f", "g", "h">>
DigitChars == <<"0", "1", "2", "3", "4", "5", "6", "7", "8", "9">>
LetterSet == {"a", "b", "c", "d", "e", "f", "g", "h", "i", "j", "k", "l", "m",
              "n", "o", "p", "q", "r", "s", "t", "u", "v", "w", "x", "y", "z",
              "A", "B", "C", "D", "E", "F", "G", "H", "I", "J", "K", "L", "M",
              "N", "O", "P", "Q", "R", "S", "T", "U", "V", "W", "X", "Y", "Z",
              "_"}
DigitSet == {DigitChars[i] : i \in 1..10}
\* The backtick character (U+0060), which a TLA+ string cannot hold.
BT == "bt"

\* The concatenation of a sequence of texts.
RECURSIVE Concat(_)
Concat(ss) == IF ss = <<>> THEN <<>> ELSE Head(ss) \o Concat(Tail(ss))

\* strings.Join
RECURSIVE Join(_, _)
Join(ss, sep) ==
  IF ss = <<>> THEN <<>>
  ELSE IF Len(ss) = 1 THEN ss[1]
  ELSE ss[1] \o sep \o Join(Tail(ss), sep)

\* The decimal text of a key value (the caller renders a numeric bound with %d).
RECURSIVE NumText(_)
NumText(v) ==
  IF v < 10 THEN <<DigitChars[v + 1]>>
  ELSE NumText(v \div 10) \o <<DigitChars[(v % 10) + 1]>>

\* ------------------------------------------------------------ the builders
greater == ">"
less == "<"
equal == "="

escapeStringNone(s) == s

RECURSIVE escapeString(_)
escapeString(s) ==
  IF s = <<>> THEN <<>>
  ELSE (IF Head(s) = BT THEN <<BT, BT>> ELSE <<Head(s)>>) \o escapeString(Tail(s))

\* fmt.Sprintf of the escaped name between two backticks
quoteCol(s) == <<BT>> \o escapeString(s) \o <<BT>>

\* for j := 0; j < i; j++ { col = bound " and " }
RECURSIVE compareEqPrefix(_, _, _)
compareEqPrefix(quotaCols, bound, n) ==
  IF n = 0 THEN <<>>
  ELSE compareEqPrefix(quotaCols, bound, n - 1)
       \o quotaCols[n] \o <<equal>> \o bound[n] \o <<" ", "a", "n", "d", " ">>

\* One iteration of buildCompareClause's loop, for the column at index i (1-based).
compareAlternativeAllInclusive(quotaCols, bound, compare, writeEqual, i) ==
  (IF i > 1 THEN <<"o", "r", "(">> ELSE <<>>)
  \o compareEqPrefix(quotaCols, bound, i - 1)
  \o quotaCols[i] \o <<compare>>
  \o (IF writeEqual THEN <<equal>> ELSE <<>>)
  \o bound[i]
  \o (IF i > 1 THEN <<")">> ELSE IF i # Len(quotaCols) THEN <<" ">> ELSE <<>>)

compareAlternative(quotaCols, bound, compare, writeEqual, i) ==
  (IF i > 1 THEN <<"o", "r", "(">> ELSE <<>>)
  \o compareEqPrefix(quotaCols, bound, i - 1)
  \o quotaCols[i] \o <<compare>>
  \o (IF writeEqual /\ i = Len(quotaCols) THEN <<equal>> ELSE <<>>)
  \o bound[i]
  \o (IF i > 1 THEN <<")">> ELSE IF i # Len(quotaCols) THEN <<" ">> ELSE <<>>)

buildCompareClause(quotaCols, bound, compare, writeEqual) ==
  Concat([i \in 1..Len(quotaCols) |->
            compareAlternative(quotaCols, bound, compare, writeEqual, i)])

\* The number of leading positions at which low and up hold the same text.
RECURSIVE getCommonLength(_, _)
getCommonLength(low, up) ==
  IF low = <<>> THEN 0
  ELSE IF low[1] # up[1] THEN 0
  ELSE 1 + getCommonLength(Tail(low), Tail(up))

singleBetweenOpen(quotaCols, low, up, writeEqual) ==
  quotaCols[1] \o <<greater>> \o low[1]
  \o <<" ", "a", "n", "d", " ">>
  \o quotaCols[1] \o <<less>> \o up[1]

singleBetween(quotaCols, low, up, writeEqual) ==
  quotaCols[1] \o <<greater>> \o (IF writeEqual THEN <<equal>> ELSE <<>>) \o low[1]
  \o <<" ", "a", "n", "d", " ">>
  \o quotaCols[1] \o <<less>> \o up[1]

betweenSuffixUpperInclusive(quotaCols, low, up) ==
  IF Len(quotaCols) = 1 THEN singleBetween(quotaCols, low, up, TRUE)
  ELSE <<"(">> \o singleBetween(quotaCols, low, up, FALSE)
       \o <<")", "o", "r", "(">>
       \o quotaCols[1] \o <<equal>> \o low[1]
       \o <<" ", "a", "n", "d", "(">>
       \o buildCompareClause(Tail(quotaCols), Tail(low), greater, TRUE)
       \o <<")", ")", "o", "r", "(">>
       \o quotaCols[1] \o <<equal>> \o up[1]
       \o <<" ", "a", "n", "d", "(">>
       \o buildCompareClause(Tail(quotaCols), Tail(up), less, TRUE)
       \o <<")", ")">>

\* buildBetweenClause after the common prefix has been cut off.
betweenSuffix(quotaCols, low, up) ==
  IF Len(quotaCols) = 1 THEN singleBetween(quotaCols, low, up, TRUE)
  ELSE <<"(">> \o singleBetween(quotaCols, low, up, FALSE)
       \o <<")", "o", "r", "(">>
       \o quotaCols[1] \o <<equal>> \o low[1]
       \o <<" ", "a", "n", "d", "(">>
       \o buildCompareClause(Tail(quotaCols), Tail(low), greater, TRUE)
       \o <<")", ")", "o", "r", "(">>
       \o quotaCols[1] \o <<equal>> \o up[1]
       \o <<" ", "a", "n", "d", "(">>
       \o buildCompareClause(Tail(quotaCols), Tail(up), less, FALSE)
       \o <<")", ")">>

\* for i := 0; i < commonLen; i++ { [" and "] col = low }
betweenEqPrefix(quotaCols, low, commonLen) ==
  Join([i \in 1..commonLen |-> quotaCols[i] \o <<equal>> \o low[i]],
       <<" ", "a", "n", "d", " ">>)

falseClause == <<"f", "a", "l", "s", "e">>

buildBetweenClauseNoEmpty(quotaCols, low, up) ==
  LET commonLen == getCommonLength(low, up)
      n == Len(quotaCols)
  IN IF commonLen > 0 /\ commonLen < Len(low)
     THEN betweenEqPrefix(quotaCols, low, commonLen)
          \o <<" ", "a", "n", "d", "(">>
          \o betweenSuffix(SubSeq(quotaCols, commonLen + 1, n),
                           SubSeq(low, commonLen + 1, n),
                           SubSeq(up, commonLen + 1, n))
          \o <<")">>
     ELSE betweenSuffix(quotaCols, low, up)

buildBetweenClause(quotaCols, low, up) ==
  LET commonLen == getCommonLength(low, up)
      n == Len(quotaCols)
  IN IF commonLen > 0
     THEN IF commonLen = Len(low) THEN falseClause
          ELSE betweenEqPrefix(quotaCols, low, commonLen)
               \o <<" ", "a", "n", "d", "(">>
               \o betweenSuffix(SubSeq(quotaCols, commonLen + 1, n),
                                SubSeq(low, commonLen + 1, n),
                                SubSeq(up, commonLen + 1, n))
               \o <<")">>
     ELSE betweenSuffix(quotaCols, low, up)

buildWhereClausesSkipBetween(handleColNames, handleVals) ==
  IF Len(handleColNames) = 0 \/ Len(handleVals) = 0 THEN <<>>
  ELSE LET quotaCols == [i \in 1..Len(handleColNames) |-> quoteCol(handleColNames[i])]
       IN <<buildCompareClause(quotaCols, handleVals[1], less, FALSE)>>
          \o [i \in 1..(Len(handleVals) - 2) |->
                buildBetweenClause(quotaCols, handleVals[i + 1], handleVals[i + 2])]
          \o <<buildCompareClause(quotaCols, handleVals[Len(handleVals)], greater, TRUE)>>

buildWhereClausesNeverNil(handleColNames, handleVals) ==
  IF Len(handleColNames) = 0 \/ Len(handleVals) = 0 THEN <<<<>>>>
  ELSE LET quotaCols == [i \in 1..Len(handleColNames) |-> quoteCol(handleColNames[i])]
       IN <<buildCompareClause(quotaCols, handleVals[1], less, FALSE)>>
          \o [i \in 1..(Len(handleVals) - 1) |->
                buildBetweenClause(quotaCols, handleVals[i], handleVals[i + 1])]
          \o <<buildCompareClause(quotaCols, handleVals[Len(handleVals)], greater, TRUE)>>

buildWhereClauses(handleColNames, handleVals) ==
  IF Len(handleColNames) = 0 \/ Len(handleVals) = 0 THEN <<>>
  ELSE LET quotaCols == [i \in 1..Len(handleColNames) |-> quoteCol(handleColNames[i])]
       IN <<buildCompareClause(quotaCols, handleVals[1], less, FALSE)>>
          \o [i \in 1..(Len(handleVals) - 1) |->
                buildBetweenClause(quotaCols, handleVals[i], handleVals[i + 1])]
          \o <<buildCompareClause(quotaCols, handleVals[Len(handleVals)], greater, TRUE)>>

\* WHERE [conf.Where] [AND] [where]
buildWhereCondition(confWhere, where) ==
  (IF confWhere # <<>>
   THEN <<"W", "H", "E", "R", "E", " ">> \o confWhere \o <<" ", " ">>
   ELSE <<>>)
  \o (IF where # <<>>
      THEN (IF confWhere # <<>> THEN <<"A", "N", "D">> ELSE <<"W", "H", "E", "R", "E">>)
           \o <<" ">> \o where
      ELSE <<>>)

emptyFields == <<"'", "'">>

buildSelectQueryWhereLast(database, table, fields, partition, where, orderByClause) ==
  <<"S", "E", "L", "E", "C", "T", " ">>
  \o (IF fields = <<>> THEN emptyFields ELSE fields)
  \o <<" ", "F", "R", "O", "M", " ", BT>> \o escapeString(database)
  \o <<BT, ".", BT>> \o escapeString(table) \o <<BT>>
  \o (IF partition # <<>>
      THEN <<" ", "P", "A", "R", "T", "I", "T", "I", "O", "N", "(", BT>>
           \o escapeString(partition) \o <<BT, ")">>
      ELSE <<>>)
  \o (IF orderByClause # <<>> THEN <<" ">> \o orderByClause ELSE <<>>)
  \o (IF where # <<>> THEN <<" ">> \o where ELSE <<>>)

buildSelectQuery(database, table, fields, partition, where, orderByClause) ==
  <<"S", "E", "L", "E", "C", "T", " ">>
  \o (IF fields = <<>> THEN emptyFields ELSE fields)
  \o <<" ", "F", "R", "O", "M", " ", BT>> \o escapeString(database)
  \o <<BT, ".", BT>> \o escapeString(table) \o <<BT>>
  \o (IF partition # <<>>
      THEN <<" ", "P", "A", "R", "T", "I", "T", "I", "O", "N", "(", BT>>
           \o escapeString(partition) \o <<BT, ")">>
      ELSE <<>>)
  \o (IF where # <<>> THEN <<" ">> \o where ELSE <<>>)
  \o (IF orderByClause # <<>> THEN <<" ">> \o orderByClause ELSE <<>>)

buildOrderByClauseString(handleColNames) ==
  IF Len(handleColNames) = 0 THEN <<>>
  ELSE <<"O", "R", "D", "E", "R", " ", "B", "Y", " ">>
       \o Join([i \in 1..Len(handleColNames) |-> quoteCol(handleColNames[i])], <<",">>)

\* The identifier between two backticks.
wrapBackTicks(identifier) == <<BT>> \o identifier \o <<BT>>

availableFieldsWithGenerated(results) ==
  [i \in 1..Len(results) |-> wrapBackTicks(escapeString(results[i].FIELD))]

\* The fields buildSelectField selects, given the (FIELD, EXTRA) rows of
\* SHOW COLUMNS: [fields, n].
availableFields(results) ==
  LET kept == SelectSeq(results,
                        LAMBDA r : r.EXTRA \notin {"STORED GENERATED", "VIRTUAL GENERATED"})
  IN [i \in 1..Len(kept) |-> wrapBackTicks(escapeString(kept[i].FIELD))]

buildSelectField(results, completeInsert) ==
  LET hasGenerateColumn ==
        \E i \in 1..Len(results) :
          results[i].EXTRA \in {"STORED GENERATED", "VIRTUAL GENERATED"}
      fields == availableFields(results)
  IN IF completeInsert \/ hasGenerateColumn
     THEN [fields |-> Join(fields, <<",">>), n |-> Len(fields)]
     ELSE [fields |-> <<"*">>, n |-> Len(fields)]

TableTypeBase == "BASE TABLE"
TableTypeView == "VIEW"

RECURSIVE lockEntriesNoBlockList(_, _, _)
lockEntriesNoBlockList(allTables, blockList, dbOrder) ==
  IF dbOrder = <<>> THEN <<>>
  ELSE LET dbName == Head(dbOrder)
           kept == SelectSeq(allTables[dbName], LAMBDA tbl : tbl.Type = TableTypeBase)
       IN [i \in 1..Len(kept) |-> [db |-> dbName, name |-> kept[i].Name]]
          \o lockEntriesNoBlockList(allTables, blockList, Tail(dbOrder))

\* The tables buildLockTablesSQL names, in the order it meets them: the map
\* allTables is ranged over in the order of dbOrder.
RECURSIVE lockEntries(_, _, _)
lockEntries(allTables, blockList, dbOrder) ==
  IF dbOrder = <<>> THEN <<>>
  ELSE LET dbName == Head(dbOrder)
           kept == SelectSeq(allTables[dbName],
                     LAMBDA tbl : /\ tbl.Type = TableTypeBase
                                  /\ ~(dbName \in DOMAIN blockList
                                       /\ tbl.Name \in blockList[dbName]))
       IN [i \in 1..Len(kept) |-> [db |-> dbName, name |-> kept[i].Name]]
          \o lockEntries(allTables, blockList, Tail(dbOrder))

buildLockTablesSQL(allTables, blockList, dbOrder) ==
  LET entries == lockEntries(allTables, blockList, dbOrder)
  IN Concat([i \in 1..Len(entries) |->
       (IF i = 1 THEN <<"L", "O", "C", "K", " ", "T", "A", "B", "L", "E", "S", " ">>
        ELSE <<",">>)
       \o <<BT>> \o escapeString(entries[i].db) \o <<BT, ".", BT>>
       \o escapeString(entries[i].name) \o <<BT, " ", "R", "E", "A", "D">>])

\* ------------------------------------------------------------ the SQL reader
\* What a server does with the text: split it into tokens, then read a
\* condition with AND binding tighter than OR.

\* The position of the backtick closing the identifier whose body starts at j
\* (a doubled backtick is part of the name), or Len(s) + 1 when there is none.
RECURSIVE IdentEnd(_, _)
IdentEnd(s, j) ==
  IF j > Len(s) THEN j
  ELSE IF s[j] = BT
       THEN IF j + 1 <= Len(s) /\ s[j + 1] = BT THEN IdentEnd(s, j + 2) ELSE j
       ELSE IdentEnd(s, j + 1)

\* The name a quoted identifier body stands for: each doubled backtick is one.
RECURSIVE Unquote(_)
Unquote(s) ==
  IF s = <<>> THEN <<>>
  ELSE IF Head(s) = BT /\ Len(s) >= 2 /\ s[2] = BT
       THEN <<BT>> \o Unquote(Tail(Tail(s)))
       ELSE <<Head(s)>> \o Unquote(Tail(s))

\* The first position from j on whose character is not in class.
RECURSIVE RunEnd(_, _, _)
RunEnd(s, j, class) ==
  IF j > Len(s) \/ s[j] \notin class THEN j ELSE RunEnd(s, j + 1, class)

RECURSIVE NumVal(_)
NumVal(ds) ==
  IF ds = <<>> THEN 0
  ELSE 10 * NumVal(SubSeq(ds, 1, Len(ds) - 1))
       + (CHOOSE d \in 0..9 : DigitChars[d + 1] = ds[Len(ds)])

WordKind(w) ==
  CASE w \in {<<"a", "n", "d">>, <<"A", "N", "D">>} -> "and"
    [] w \in {<<"o", "r">>, <<"O", "R">>} -> "or"
    [] w \in {<<"f", "a", "l", "s", "e">>, <<"F", "A", "L", "S", "E">>} -> "false"
    [] w \in {<<"w", "h", "e", "r", "e">>, <<"W", "H", "E", "R", "E">>} -> "where"
    [] w \in {<<"o", "r", "d", "e", "r">>, <<"O", "R", "D", "E", "R">>} -> "order"
    [] OTHER -> "word"

Tok(k, s, n) == [k |-> k, s |-> s, n |-> n]

RECURSIVE Lex(_, _)
Lex(s, i) ==
  IF i > Len(s) THEN <<>>
  ELSE LET ch == s[i] IN
    CASE ch = " " -> Lex(s, i + 1)
      [] ch = BT ->
           LET e == IdentEnd(s, i + 1)
           IN <<Tok(IF e > Len(s) THEN "bad" ELSE "id",
                    Unquote(SubSeq(s, i + 1, e - 1)), 0)>> \o Lex(s, e + 1)
      [] ch \in DigitSet ->
           LET e == RunEnd(s, i, DigitSet)
           IN <<Tok("num", SubSeq(s, i, e - 1), NumVal(SubSeq(s, i, e - 1)))>>
              \o Lex(s, e)
      [] ch \in LetterSet ->
           LET e == RunEnd(s, i, LetterSet)
           IN <<Tok(WordKind(SubSeq(s, i, e - 1)), SubSeq(s, i, e - 1), 0)>>
              \o Lex(s, e)
      [] ch \in {"<", ">"} /\ i + 1 <= Len(s) /\ s[i + 1] = "=" ->
           <<Tok(IF ch = "<" THEN "<=" ELSE ">=", <<ch, "=">>, 0)>> \o Lex(s, i + 2)
      [] OTHER -> <<Tok(ch, <<ch>>, 0)>> \o Lex(s, i + 1)

Compare(op, a, b) ==
  CASE op = "<" -> a < b
    [] op = ">" -> a > b
    [] op = "=" -> a = b
    [] op = "<=" -> a <= b
    [] op = ">=" -> a >= b
    [] OTHER -> FALSE

\* A reading result: the condition read (a tree) and the next position
\* (Len(toks) + 2 marks text that is no condition).
Bad(toks) == [t |-> [op |-> "bad"], p |-> Len(toks) + 2]

RECURSIVE ReadOr(_, _), ReadOrRest(_, _, _), ReadAnd(_, _)
RECURSIVE ReadAndRest(_, _, _), ReadAtom(_, _)
ReadOr(toks, p) ==
  LET a == ReadAnd(toks, p) IN ReadOrRest(toks, a.p, a.t)

ReadOrRest(toks, p, acc) ==
  IF p <= Len(toks) /\ toks[p].k = "or"
  THEN LET b == ReadAnd(toks, p + 1)
       IN ReadOrRest(toks, b.p, [op |-> "or", l |-> acc, r |-> b.t])
  ELSE [t |-> acc, p |-> p]

ReadAnd(toks, p) ==
  LET a == ReadAtom(toks, p) IN ReadAndRest(toks, a.p, a.t)

ReadAndRest(toks, p, acc) ==
  IF p <= Len(toks) /\ toks[p].k = "and"
  THEN LET b == ReadAtom(toks, p + 1)
       IN ReadAndRest(toks, b.p, [op |-> "and", l |-> acc, r |-> b.t])
  ELSE [t |-> acc, p |-> p]

ReadAtom(toks, p) ==
  IF p > Len(toks) THEN Bad(toks)
  ELSE CASE toks[p].k = "(" ->
              LET a == ReadOr(toks, p + 1)
              IN IF a.p <= Len(toks) /\ toks[a.p].k = ")"
                 THEN [t |-> a.t, p |-> a.p + 1] ELSE Bad(toks)
         [] toks[p].k = "false" -> [t |-> [op |-> "false"], p |-> p + 1]
         [] toks[p].k = "id" ->
              IF /\ p + 2 <= Len(toks)
                 /\ toks[p + 1].k \in {"<", ">", "=", "<=", ">="}
                 /\ toks[p + 2].k = "num"
              THEN [t |-> [op |-> "cmp", col |-> toks[p].s, cmp |-> toks[p + 1].k,
                           n |-> toks[p + 2].n],
                    p |-> p + 3]
              ELSE Bad(toks)
         [] OTHER -> Bad(toks)

\* The condition a token sequence spells: [ok, t], ok when all of it was read.
Condition(toks) ==
  LET r == ReadOr(toks, 1) IN [ok |-> r.p = Len(toks) + 1, t |-> r.t]

\* The value of a condition tree on a row; a comparison on a column the row
\* does not have, and text that is no condition, select nothing.
RECURSIVE Eval(_, _)
Eval(t, row) ==
  CASE t.op = "or" -> Eval(t.l, row) \/ Eval(t.r, row)
    [] t.op = "and" -> Eval(t.l, row) /\ Eval(t.r, row)
    [] t.op = "cmp" -> t.col \in DOMAIN row /\ Compare(t.cmp, row[t.col], t.n)
    [] OTHER -> FALSE

Holds(cond, row) == cond.ok /\ Eval(cond.t, row)

\* The condition of a where clause or filter text.
ClauseCondition(text) == Condition(Lex(text, 1))

\* The tokens of the condition after WHERE in a query (up to ORDER BY), and
\* whether the query has a WHERE at all.
KindIndex(toks, kind) ==
  IF \E i \in 1..Len(toks) : toks[i].k = kind
  THEN CHOOSE i \in 1..Len(toks) :
         toks[i].k = kind /\ \A j \in 1..(i - 1) : toks[j].k # kind
  ELSE Len(toks) + 1
HasWhere(toks) == KindIndex(toks, "where") <= Len(toks)
WhereTokens(toks) ==
  SubSeq(toks, KindIndex(toks, "where") + 1, KindIndex(toks, "order") - 1)
\* The condition under which a query selects a row: the one spelled after
\* WHERE, and every row when the query has no WHERE.
QueryCondition(query) ==
  LET toks == Lex(query, 1)
  IN IF HasWhere(toks) THEN Condition(WhereTokens(toks))
     ELSE [ok |-> TRUE, t |-> [op |-> "or", l |-> [op |-> "false"], r |-> [op |-> "false"]], all |-> TRUE]
Selects(cond, row) == ("all" \in DOMAIN cond) \/ Holds(cond, row)

\* ------------------------------------------------------------ the program
VARIABLES
  handleColNames,  \* the ordering key: a sequence of column names
  handleVals,      \* the boundary tuples received so far, each a tuple of literals
  confWhere,       \* conf.Where, the caller's filter ("" when there is none)
  whereClauses,    \* what buildWhereClauses returned
  tasks,           \* the chunk tasks built so far: [ChunkIndex, query]
  pc,              \* "sample", "built" or "done"; "call" when one builder is called
  call,            \* the builder called, with its arguments and its result
  conns            \* the connections taken from the pool db, in the order taken

vars == <<handleColNames, handleVals, confWhere, whereClauses, tasks, pc, call, conns>>

database == <<"d", "b">>
table == <<"t">>
filterCol == <<"x">>

KeyCols(n) == [i \in 1..n |-> <<Letters[i]>>]
Vals == 0..MaxVal
Tuples(n) == [1..n -> Vals]
\* The literal texts of a tuple of key values.
Literals(t) == [i \in 1..Len(t) |-> NumText(t[i])]
\* The key values a tuple of literals stands for.
Values(lits) == [i \in 1..Len(lits) |-> NumVal(lits[i])]

\* t < u in the lexicographic order of tuples of the same length.
RECURSIVE LexLess(_, _)
LexLess(t, u) ==
  IF t = <<>> THEN FALSE
  ELSE t[1] < u[1] \/ (t[1] = u[1] /\ LexLess(Tail(t), Tail(u)))
LexLeq(t, u) == t = u \/ LexLess(t, u)

\* The caller's filters: none, one comparison, and a disjunction.
Filters ==
  { <<>>,
    <<BT, "x", BT, "=", "1">>,
    <<BT, "a", BT, "=", "0", " ", "o", "r", " ", BT, "x", BT, "=", "1">> }

\* The rows of a table with the ordering columns and the column x.
NoCall == [fn |-> "none"]

Rows == [{handleColNames[i] : i \in 1..Len(handleColNames)} \cup {filterCol} -> Vals]
\* The same rows without the column x, for conditions on the ordering key alone.
KeyRows == [{handleColNames[i] : i \in 1..Len(handleColNames)} -> Vals]
Key(row) == [i \in 1..Len(handleColNames) |-> row[handleColNames[i]]]

\* A table has an ordering key of up to MaxCols columns, or none.
Init ==
  /\ handleColNames \in {KeyCols(n) : n \in 0..MaxCols}
  /\ handleVals = <<>>
  /\ confWhere \in Filters
  /\ whereClauses = <<>>
  /\ tasks = <<>>
  /\ pc = "sample"
  /\ call = NoCall
  /\ conns = <<>>

\* The next boundary tuple the boundary source can deliver after the ones
\* received: any tuple of values up to maxVal not below the last one.
NextSamples(maxVal) ==
  {t \in [1..Len(handleColNames) -> 0..maxVal] :
     handleVals # <<>> => LexLeq(Values(handleVals[Len(handleVals)]), t)}

\* The boundary source delivers the next boundary tuple, in the key's order.
SampleRow ==
  /\ pc = "sample"
  /\ Len(handleColNames) > 0
  /\ Len(handleVals) < MaxBounds
  /\ \E t \in NextSamples(MaxVal) : handleVals' = Append(handleVals, Literals(t))
  /\ UNCHANGED <<handleColNames, confWhere, whereClauses, tasks, pc, call, conns>>

BuildWhereClauses ==
  /\ pc = "sample"
  /\ whereClauses' = buildWhereClauses(handleColNames, handleVals)
  /\ pc' = "built"
  /\ UNCHANGED <<handleColNames, handleVals, confWhere, tasks, call, conns>>

selectFields == Join([i \in 1..Len(handleColNames) |-> quoteCol(handleColNames[i])], <<",">>)

\* The query of the chunk with where clause w ("" for the whole table).
ChunkQuery(w) ==
  buildSelectQuery(database, table, selectFields, <<>>,
                   buildWhereCondition(confWhere, w),
                   buildOrderByClauseString(handleColNames))

\* The next chunk's query is built, in the order of the where clauses; a table
\* without where clauses is selected whole.
BuildChunkQuery ==
  /\ pc = "built"
  /\ LET k == Len(tasks) + 1
         w == IF whereClauses = <<>> THEN <<>> ELSE whereClauses[k]
     IN /\ tasks' = Append(tasks, [ChunkIndex |-> k - 1, query |-> ChunkQuery(w)])
        /\ pc' = IF k >= Len(whereClauses) THEN "done" ELSE "built"
  /\ UNCHANGED <<handleColNames, handleVals, confWhere, whereClauses, call, conns>>

Next == SampleRow \/ BuildWhereClauses \/ BuildChunkQuery

Spec == Init /\ [][Next]_vars

\* ---------------------------------------------- one ordering column alone
\* The same program on a single ordering column, with more and larger
\* boundaries.
InitSingle ==
  /\ handleColNames = KeyCols(1)
  /\ handleVals = <<>>
  /\ confWhere \in Filters
  /\ whereClauses = <<>>
  /\ tasks = <<>>
  /\ pc = "sample"
  /\ call = NoCall
  /\ conns = <<>>

SampleRowSingle ==
  /\ pc = "sample"
  /\ Len(handleVals) < MaxSingleBounds
  /\ \E t \in NextSamples(MaxSingleVal) : handleVals' = Append(handleVals, Literals(t))
  /\ UNCHANGED <<handleColNames, confWhere, whereClauses, tasks, pc, call, conns>>

NextSingle == SampleRowSingle \/ BuildWhereClauses \/ BuildChunkQuery

SpecSingle == InitSingle /\ [][NextSingle]_vars

\* ------------------------------------------------------ the builders called
\* Identifier names: the texts of 1..MaxNameLen characters over a letter and
\* the backtick.
NameChars == {"a", BT}
NamesOfLen(n) == [1..n -> NameChars]
Names == UNION {NamesOfLen(n) : n \in 1..MaxNameLen}

someWhere == <<"W", "H", "E", "R", "E", " ", BT, "a", BT, "=", "1">>
someOrderBy == <<"O", "R", "D", "E", "R", " ", "B", "Y", " ", BT, "a", BT>>

InitCall ==
  /\ handleColNames = <<>>
  /\ handleVals = <<>>
  /\ confWhere = <<>>
  /\ whereClauses = <<>>
  /\ tasks = <<>>
  /\ pc = "call"
  /\ call = NoCall
  /\ conns = <<>>

partitionVars == <<handleColNames, handleVals, confWhere, whereClauses, tasks, pc, conns>>
Idle == pc = "call" /\ call = NoCall

CallBuildSelectQuery ==
  \E db \in Names, tbl \in Names, fields \in {<<>>, <<"*">>},
     partition \in Names \cup {<<>>}, where \in {<<>>, someWhere},
     orderByClause \in {<<>>, someOrderBy} :
    /\ Idle
    /\ call' = [fn |-> "buildSelectQuery",
                args |-> [database |-> db, table |-> tbl, fields |-> fields,
                          partition |-> partition, where |-> where,
                          orderByClause |-> orderByClause],
                out |-> buildSelectQuery(db, tbl, fields, partition, where, orderByClause)]
    /\ UNCHANGED partitionVars

CallBuildWhereClauses ==
  \E cols \in UNION {[1..n -> Names] : n \in 1..2}, v \in 0..1 :
    /\ Idle
    /\ call' = [fn |-> "buildWhereClauses",
                args |-> [handleColNames |-> cols,
                          handleVals |-> <<[i \in 1..Len(cols) |-> NumText(v)]>>],
                out |-> buildWhereClauses(cols, <<[i \in 1..Len(cols) |-> NumText(v)]>>)]
    /\ UNCHANGED partitionVars

CallBuildOrderByClauseString ==
  \E cols \in UNION {[1..n -> Names] : n \in 0..2} :
    /\ Idle
    /\ call' = [fn |-> "buildOrderByClauseString",
                args |-> [handleColNames |-> cols],
                out |-> buildOrderByClauseString(cols)]
    /\ UNCHANGED partitionVars

Extras == {"", "auto_increment", "STORED GENERATED", "VIRTUAL GENERATED"}
FieldNames == {<<"i", "d">>, <<"q", BT, "t">>, <<BT>>}

CallBuildSelectField ==
  \E results \in UNION {[1..n -> [FIELD : FieldNames, EXTRA : Extras]] : n \in 1..MaxFields},
     completeInsert \in BOOLEAN :
    /\ Idle
    /\ call' = [fn |-> "buildSelectField",
                args |-> [results |-> results, completeInsert |-> completeInsert],
                out |-> buildSelectField(results, completeInsert)]
    /\ UNCHANGED partitionVars

DbNames == {<<"a">>, <<"a", BT>>}
TableNames == {<<"t">>, <<BT, "t">>}
TableInfos == [Name : TableNames, Type : {TableTypeBase, TableTypeView}]
TableLists == UNION {[1..n -> TableInfos] : n \in 1..MaxTables}
BlockLists ==
  {<<>>} \cup {[d \in {db} |-> {t}] : db \in DbNames, t \in TableNames}
\* The orders in which a map with the keys D can be ranged over.
Orders(D) == {o \in [1..Cardinality(D) -> D] : \A i, j \in DOMAIN o : o[i] = o[j] => i = j}

CallBuildLockTablesSQL ==
  \E D \in (SUBSET DbNames) \ {{}} :
    \E allTables \in [D -> TableLists], blockList \in BlockLists, dbOrder \in Orders(D) :
      /\ Idle
      /\ call' = [fn |-> "buildLockTablesSQL",
                  args |-> [allTables |-> allTables, blockList |-> blockList,
                            dbOrder |-> dbOrder],
                  out |-> buildLockTablesSQL(allTables, blockList, dbOrder)]
      /\ UNCHANGED partitionVars

NextCall ==
  \/ CallBuildSelectQuery
  \/ CallBuildWhereClauses
  \/ CallBuildOrderByClauseString
  \/ CallBuildSelectField
  \/ CallBuildLockTablesSQL

SpecCall == InitCall /\ [][NextCall]_vars

\* ------------------------------------------------------------ the claims
\* The condition of each where clause, and the boundary tuples as key values.
ClauseConds == [k \in 1..Len(whereClauses) |-> ClauseCondition(whereClauses[k])]
Bounds == [i \in 1..Len(handleVals) |-> Values(handleVals[i])]
Built == pc # "sample"
NumBounds == Len(handleVals)

\* C1: with at least one boundary tuple, every tuple of key values satisfies
\* exactly one of the predicates buildWhereClauses returned.
C1_ExactlyOnePredicate ==
  (Built /\ NumBounds >= 1) =>
    \A conds \in {ClauseConds} : \A row \in KeyRows :
      Cardinality({k \in 1..Len(conds) : Holds(conds[k], row)}) = 1

\* C1 witness: three columns, two boundaries sharing their first column, and
\* the predicates are built; a key between the two satisfies the middle one.
C1_Witness ==
  /\ Built /\ Len(handleColNames) = 3 /\ NumBounds = 2
  /\ handleVals[1][1] = handleVals[2][1] /\ handleVals[1] # handleVals[2]
  /\ \E row \in KeyRows :
       /\ LexLess(Bounds[1], Key(row)) /\ LexLess(Key(row), Bounds[2])
       /\ Holds(ClauseConds[2], row)

\* C2 as stated: for every number M >= 0 of boundaries, M + 1 predicates.
C2_Original == Built => Len(whereClauses) = NumBounds + 1

\* C2 amended: M + 1 predicates for M >= 1 boundaries, and none for M = 0.
C2_PredicateCount ==
  Built => Len(whereClauses) = (IF NumBounds = 0 THEN 0 ELSE NumBounds + 1)

C2_Witness == Built /\ NumBounds = 2 /\ Len(whereClauses) = 3

\* C3: predicate 0 holds exactly of the keys below the first boundary, the
\* predicate between two increasing boundaries exactly of the keys in
\* [low, up), and the last predicate exactly of the keys from the last
\* boundary on.
C3_HalfOpenIntervals ==
  (Built /\ NumBounds >= 1) =>
    \A conds \in {ClauseConds} : \A B \in {Bounds} : \A row \in KeyRows :
      \A key \in {Key(row)} :
        /\ Holds(conds[1], row) <=> LexLess(key, B[1])
        /\ \A i \in 1..(Len(B) - 1) :
             LexLess(B[i], B[i + 1]) =>
               (Holds(conds[i + 1], row)
                  <=> (LexLeq(B[i], key) /\ LexLess(key, B[i + 1])))
        /\ Holds(conds[Len(B) + 1], row) <=> LexLeq(B[Len(B)], key)

\* C3 witness: three columns, two increasing boundaries that differ in the
\* first column, and a key pinned at the upper boundary's first column is in
\* the middle predicate.
C3_Witness ==
  /\ Built /\ Len(handleColNames) = 3 /\ NumBounds = 2
  /\ handleVals[1][1] # handleVals[2][1]
  /\ \E row \in KeyRows :
       /\ Key(row)[1] = Bounds[2][1] /\ LexLess(Key(row), Bounds[2])
       /\ Holds(ClauseConds[2], row)

\* The index of the predicate that follows the run of boundaries equal to
\* boundary i.
FollowsDuplicates(i) ==
  1 + (CHOOSE j \in 1..NumBounds :
         /\ handleVals[j] = handleVals[i]
         /\ \A l \in 1..NumBounds : handleVals[l] = handleVals[i] => l <= j)

\* C4: between two equal consecutive boundaries the predicate is the text
\* false, and a key equal to them satisfies the predicate after the
\* duplicates and no other.
C4_DuplicateBoundaries ==
  Built =>
    \A conds \in {ClauseConds} : \A i \in 1..(NumBounds - 1) :
      handleVals[i] = handleVals[i + 1] =>
        /\ whereClauses[i + 1] = <<"f", "a", "l", "s", "e">>
        /\ \A row \in KeyRows :
             Key(row) = Bounds[i] =>
               \A k \in 1..Len(conds) :
                 Holds(conds[k], row) <=> k = FollowsDuplicates(i)

\* C4 witness: a duplicated boundary on several columns, and its key is
\* selected by the last predicate.
C4_Witness ==
  /\ Built /\ NumBounds = 2 /\ handleVals[1] = handleVals[2]
  /\ Len(handleColNames) >= 2
  /\ whereClauses[2] = <<"f", "a", "l", "s", "e">>
  /\ \E row \in KeyRows : Key(row) = Bounds[1] /\ Holds(ClauseConds[3], row)

\* How a name is written as an identifier: a backtick, the name with each of
\* its backticks twice, a backtick.
QuoteIdent(name) ==
  <<BT>> \o Concat([i \in 1..Len(name) |-> IF name[i] = BT THEN <<BT, BT>> ELSE <<name[i]>>])
  \o <<BT>>
AndText == <<" ", "a", "n", "d", " ">>

\* The number of leading columns in which boundaries i and i + 1 agree.
CommonLen(i) ==
  Cardinality({c \in 1..Len(handleColNames) :
                 \A j \in 1..c : Bounds[i][j] = Bounds[i + 1][j]})

\* The prefix equalities and the suffix column's interval of a pair of
\* boundaries that differ in the last column only, the lower end written with
\* lowerOp.
LastColumnBetween(i, lowerOp) ==
  LET n == Len(handleColNames)
      col == QuoteIdent(handleColNames[n])
  IN Join([j \in 1..(n - 1) |-> QuoteIdent(handleColNames[j]) \o <<"=">> \o handleVals[i][j]],
          AndText)
     \o <<" ", "a", "n", "d", "(">>
     \o col \o lowerOp \o handleVals[i][n] \o AndText \o col \o <<"<">> \o handleVals[i + 1][n]
     \o <<")">>

\* C5 as stated: with a shared prefix and one suffix column left, the suffix
\* column's clause is col > low and col < up, after the prefix equalities.
C5_Original ==
  Built =>
    \A i \in 1..(NumBounds - 1) :
      (Len(handleColNames) >= 2 /\ CommonLen(i) = Len(handleColNames) - 1) =>
        whereClauses[i + 1] = LastColumnBetween(i, <<">">>)

\* C5 amended: the suffix column's clause is col >= low and col < up.
C5_LastColumnInclusiveLow ==
  Built =>
    \A i \in 1..(NumBounds - 1) :
      (Len(handleColNames) >= 2 /\ CommonLen(i) = Len(handleColNames) - 1) =>
        whereClauses[i + 1] = LastColumnBetween(i, <<">", "=">>)

\* C5 witness: three columns, the two boundaries agree in the first two.
C5_Witness ==
  /\ Built /\ Len(handleColNames) = 3 /\ NumBounds = 2 /\ CommonLen(1) = 2
  /\ Len(whereClauses) = 3

\* The tokens of alternative i of a comparison of cols with bound.
ExpectedAlternative(cols, bound, cmp, inclusive, i) ==
  Concat([j \in 1..(i - 1) |->
            <<Tok("id", cols[j], 0), Tok("=", <<"=">>, 0),
              Tok("num", bound[j], NumVal(bound[j])), Tok("and", <<"a", "n", "d">>, 0)>>])
  \o <<Tok("id", cols[i], 0),
       (IF inclusive /\ i = Len(cols) THEN Tok(cmp \o "=", <<cmp, "=">>, 0)
        ELSE Tok(cmp, <<cmp>>, 0)),
       Tok("num", bound[i], NumVal(bound[i]))>>

\* The tokens of the comparison: the first alternative bare, every later one
\* after or and in brackets.
ExpectedCompare(cols, bound, cmp, inclusive) ==
  Concat([i \in 1..Len(cols) |->
    IF i = 1 THEN ExpectedAlternative(cols, bound, cmp, inclusive, 1)
    ELSE <<Tok("or", <<"o", "r">>, 0), Tok("(", <<"(">>, 0)>>
         \o ExpectedAlternative(cols, bound, cmp, inclusive, i)
         \o <<Tok(")", <<")">>, 0)>>])

\* C6: the first and the last predicate are one alternative per column,
\* joined by or, alternative i pinning the columns before i to the bound and
\* comparing column i strictly, except that the last alternative of the last
\* predicate is inclusive; boundaries [(1,2)] on (a,b) give the two texts of
\* the specification.
C6_CompareClause ==
  (Built /\ NumBounds >= 1) =>
    /\ Lex(whereClauses[1], 1) = ExpectedCompare(handleColNames, handleVals[1], "<", FALSE)
    /\ Lex(whereClauses[NumBounds + 1], 1)
         = ExpectedCompare(handleColNames, handleVals[NumBounds], ">", TRUE)
    /\ (handleColNames = KeyCols(2) /\ handleVals = <<Literals(<<1, 2>>)>>) =>
         whereClauses =
           << <<BT, "a", BT, "<", "1", " ", "o", "r", "(", BT, "a", BT, "=", "1",
                " ", "a", "n", "d", " ", BT, "b", BT, "<", "2", ")">>,
              <<BT, "a", BT, ">", "1", " ", "o", "r", "(", BT, "a", BT, "=", "1",
                " ", "a", "n", "d", " ", BT, "b", BT, ">", "=", "2", ")">> >>

\* C6 witness: the boundaries [(1,2)] on (a,b) and their two predicates.
C6_Witness ==
  /\ Built /\ handleColNames = KeyCols(2) /\ handleVals = <<Literals(<<1, 2>>)>>
  /\ Len(whereClauses) = 2

\* The predicates of the specification on one column a: a<b1, then
\* a>=b(i) and a<b(i+1) for each consecutive pair (the text false for an
\* equal pair when falseOnEqual), then a>=bM.
SingleColumnTexts(falseOnEqual) ==
  LET col == <<BT, "a", BT>>
      M == NumBounds
  IN <<col \o <<"<">> \o handleVals[1][1]>>
     \o [i \in 1..(M - 1) |->
           IF falseOnEqual /\ handleVals[i] = handleVals[i + 1]
           THEN <<"f", "a", "l", "s", "e">>
           ELSE col \o <<">", "=">> \o handleVals[i][1] \o AndText
                \o col \o <<"<">> \o handleVals[i + 1][1]]
     \o <<col \o <<">", "=">> \o handleVals[M][1]>>

\* C7 as stated: on one column the predicates are a<b1, a>=b(i) and a<b(i+1)
\* for each consecutive pair, a>=bM.
C7_Original ==
  (Built /\ Len(handleColNames) = 1 /\ NumBounds >= 1) =>
    whereClauses = SingleColumnTexts(FALSE)

\* C7 amended: the same, except that the predicate between two equal
\* consecutive boundaries is the text false; boundaries [1] give a<1 and a>=1,
\* and boundaries 1,2,3 give a<1, a>=1 and a<2, a>=2 and a<3, a>=3.
C7_SingleColumn ==
  (Built /\ Len(handleColNames) = 1 /\ NumBounds >= 1) =>
    /\ whereClauses = SingleColumnTexts(TRUE)
    /\ handleVals = << <<<<"1">>>> >> =>
         whereClauses = << <<BT, "a", BT, "<", "1">>, <<BT, "a", BT, ">", "=", "1">> >>
    /\ handleVals = << <<<<"1">>>>, <<<<"2">>>>, <<<<"3">>>> >> =>
         whereClauses =
           << <<BT, "a", BT, "<", "1">>,
              <<BT, "a", BT, ">", "=", "1", " ", "a", "n", "d", " ", BT, "a", BT, "<", "2">>,
              <<BT, "a", BT, ">", "=", "2", " ", "a", "n", "d", " ", BT, "a", BT, "<", "3">>,
              <<BT, "a", BT, ">", "=", "3">> >>

\* C7 witness: the boundaries 1,2,3 and their four predicates.
C7_Witness ==
  /\ Built /\ handleVals = << <<<<"1">>>>, <<<<"2">>>>, <<<<"3">>>> >>
  /\ Len(whereClauses) = 4

\* C8: with a caller filter F, the query of the chunk with range predicate P
\* selects exactly the rows that satisfy F and satisfy P.
C8_FilterAndRange ==
  (confWhere # <<>> /\ whereClauses # <<>>) =>
    \A k \in 1..Len(tasks) :
      \A F \in {ClauseCondition(confWhere)}, P \in {ClauseCondition(whereClauses[k])},
         Q \in {QueryCondition(tasks[k].query)} :
        \A row \in Rows : Selects(Q, row) <=> (Holds(F, row) /\ Holds(P, row))

\* C8 failing input: the filter x = 1, the key (a, b), the boundary (1, 2);
\* the first chunk's query selects the row a = 1, b = 0, x = 0.
C8_FailingInput ==
  LET cols == KeyCols(2)
      F == <<BT, "x", BT, "=", "1">>
      P == buildWhereClauses(cols, <<Literals(<<1, 2>>)>>)[1]
      row == [c \in {<<"a">>, <<"b">>, <<"x">>} |-> IF c = <<"a">> THEN 1 ELSE 0]
  IN /\ Holds(ClauseCondition(P), row)
     /\ ~Holds(ClauseCondition(F), row)
     /\ Selects(QueryCondition(buildSelectQuery(database, table, <<"*">>, <<>>,
                                                buildWhereCondition(F, P), <<>>)), row)

\* The segments of a SELECT query after its table.
Segment(text) == IF text = <<>> THEN <<>> ELSE <<" ">> \o text
PartitionText(partition) ==
  IF partition = <<>> THEN <<>>
  ELSE <<"P", "A", "R", "T", "I", "T", "I", "O", "N", "(">> \o QuoteIdent(partition) \o <<")">>
SelectFrom(fields, db, tbl) ==
  <<"S", "E", "L", "E", "C", "T", " ">> \o fields \o <<" ", "F", "R", "O", "M", " ">>
  \o QuoteIdent(db) \o <<".">> \o QuoteIdent(tbl)

\* C9: buildSelectQuery writes SELECT fields FROM db.tbl, then one segment
\* after one space for each of partition, where and order-by that is not
\* empty, in that order, and nothing for an empty one; an empty field list is
\* written ''.
C9_SelectQuerySegments ==
  call.fn = "buildSelectQuery" =>
    LET a == call.args
        fields == IF a.fields = <<>> THEN <<"'", "'">> ELSE a.fields
    IN /\ call.out = SelectFrom(fields, a.database, a.table)
                     \o Segment(PartitionText(a.partition))
                     \o Segment(a.where)
                     \o Segment(a.orderByClause)
       /\ (a.partition = <<>> /\ a.where = <<>> /\ a.orderByClause = <<>>)
            => call.out = SelectFrom(fields, a.database, a.table)

\* C9 witness: a call with every optional clause and an empty field list.
C9_Witness ==
  /\ call.fn = "buildSelectQuery"
  /\ call.args.partition # <<>> /\ call.args.where # <<>>
  /\ call.args.orderByClause # <<>> /\ call.args.fields = <<>>

\* The names of the identifiers a text holds, in order, as a server reads
\* them; <<"?">> stands for a backtick that opens no identifier.
Idents(text) ==
  LET toks == SelectSeq(Lex(text, 1), LAMBDA t : t.k \in {"id", "bad"})
  IN [i \in 1..Len(toks) |-> IF toks[i].k = "id" THEN toks[i].s ELSE <<"?">>]

\* The names a comparison of cols mentions: for each column, the columns up
\* to it.
ComparedCols(cols) == Concat([i \in 1..Len(cols) |-> SubSeq(cols, 1, i)])

\* The names the call's result is to mention, in order.
NamesOfCall ==
  CASE call.fn = "buildSelectQuery" ->
         <<call.args.database, call.args.table>>
         \o (IF call.args.partition = <<>> THEN <<>> ELSE <<call.args.partition>>)
         \o (IF call.args.where = <<>> THEN <<>> ELSE << <<"a">> >>)
         \o (IF call.args.orderByClause = <<>> THEN <<>> ELSE << <<"a">> >>)
    [] call.fn = "buildWhereClauses" ->
         ComparedCols(call.args.handleColNames) \o ComparedCols(call.args.handleColNames)
    [] call.fn = "buildOrderByClauseString" -> call.args.handleColNames
    [] call.fn = "buildSelectField" ->
         LET kept == SelectSeq(call.args.results,
                       LAMBDA r : r.EXTRA \notin {"STORED GENERATED", "VIRTUAL GENERATED"})
         IN IF call.out.fields = <<"*">> THEN <<>>
            ELSE [i \in 1..Len(kept) |-> kept[i].FIELD]
    [] call.fn = "buildLockTablesSQL" ->
         LET e == lockEntries(call.args.allTables, call.args.blockList, call.args.dbOrder)
         IN Concat([i \in 1..Len(e) |-> <<e[i].db, e[i].name>>])
    [] OTHER -> <<>>

\* The text of the call's result.
TextOfCall ==
  CASE call.fn = "buildWhereClauses" -> Concat([i \in 1..Len(call.out) |->
                                                  call.out[i] \o <<" ">>])
    [] call.fn = "buildSelectField" -> call.out.fields
    [] call.fn = "none" -> <<>>
    [] OTHER -> call.out

\* C10: the identifiers read back from the text of buildSelectQuery,
\* buildWhereClauses, buildOrderByClauseString, buildSelectField and
\* buildLockTablesSQL are exactly the names given, in order, whatever
\* backticks the names hold; and an order-by clause is its names, each
\* between backticks with its backticks doubled, joined by commas.
C10_IdentifiersQuoted ==
  /\ Idents(TextOfCall) = NamesOfCall
  /\ (call.fn = "buildOrderByClauseString" /\ call.args.handleColNames # <<>>) =>
       call.out = <<"O", "R", "D", "E", "R", " ", "B", "Y", " ">>
                  \o Join([i \in 1..Len(call.args.handleColNames) |->
                             QuoteIdent(call.args.handleColNames[i])], <<",">>)

\* C10 witness: a query whose database, table and partition names all hold a
\* backtick.
C10_Witness ==
  /\ call.fn = "buildSelectQuery"
  /\ \A n \in {call.args.database, call.args.table, call.args.partition} :
       \E i \in 1..Len(n) : n[i] = BT
  /\ call.args.partition # <<>>

\* The tables a LOCK TABLES statement names, as a server reads it: after the
\* words LOCK TABLES, items db.name READ with commas between; <<>> when the
\* text is no such statement.
LockedTables(text) ==
  LET toks == Lex(text, 1)
      n == (Len(toks) - 1) \div 5
      item(i) == SubSeq(toks, 5 * i - 2, 5 * i + 1)
      wellFormed ==
        /\ Len(toks) = 5 * n + 1 /\ n >= 1
        /\ toks[1].s = <<"L", "O", "C", "K">>
        /\ toks[2].s = <<"T", "A", "B", "L", "E", "S">>
        /\ \A i \in 1..n :
             /\ item(i)[1].k = "id" /\ item(i)[2].k = "." /\ item(i)[3].k = "id"
             /\ item(i)[4].s = <<"R", "E", "A", "D">>
             /\ i < n => toks[5 * i + 2].k = ","
  IN IF wellFormed THEN [i \in 1..n |-> [db |-> item(i)[1].s, name |-> item(i)[3].s]]
     ELSE <<>>

\* The entries of allTables[db] that are base tables named name.
BaseEntries(allTables, db, name) ==
  {i \in 1..Len(allTables[db]) :
     allTables[db][i].Name = name /\ allTables[db][i].Type = TableTypeBase}
IsBlocked(blockList, db, name) == db \in DOMAIN blockList /\ name \in blockList[db]

\* C16: in every order of the table map, the statement of buildLockTablesSQL
\* names with READ each base table outside the block list once for each of
\* its entries, and names no view, no table of the block list and nothing
\* else; it is empty when there is no table to lock.
C16_LocksBaseTablesOnly ==
  call.fn = "buildLockTablesSQL" =>
    \A locked \in {LockedTables(call.out)} :
      LET allTables == call.args.allTables
          blockList == call.args.blockList
          expected(db, name) ==
            IF IsBlocked(blockList, db, name) THEN 0
            ELSE Cardinality(BaseEntries(allTables, db, name))
      IN /\ \A i \in 1..Len(locked) : locked[i].db \in DOMAIN allTables
         /\ \A db \in DOMAIN allTables, name \in TableNames :
              Cardinality({i \in 1..Len(locked) :
                             locked[i] = [db |-> db, name |-> name]})
                = expected(db, name)
         /\ locked = <<>> => call.out = <<>>

\* C16 witness: two databases, a view, a table of the block list and a base
\* table that is locked.
C16_Witness ==
  /\ call.fn = "buildLockTablesSQL"
  /\ Len(call.args.dbOrder) = 2
  /\ call.args.blockList # <<>>
  /\ \E db \in DOMAIN call.args.allTables :
       /\ \E i \in 1..Len(call.args.allTables[db]) :
            call.args.allTables[db][i].Type = TableTypeView
       /\ \E i \in 1..Len(call.args.allTables[db]) :
            /\ call.args.allTables[db][i].Type = TableTypeBase
            /\ IsBlocked(call.args.blockList, db, call.args.allTables[db][i].Name)
  /\ Len(LockedTables(call.out)) = 1

\* ------------------------------------------------- the functions called
\* One call of a function that sizes chunks, picks the ordering key or asks
\* the server; what the server answers is an input of the call.

MaxAvgRowLength == 200

defaultRows == 200000
maxRows == 1000000
bytesPerFile == 128 * 1024 * 1024

GetSuitableRowsNoCap(avgRowLength) ==
  IF avgRowLength = 0 THEN defaultRows ELSE bytesPerFile \div avgRowLength

GetSuitableRows(avgRowLength) ==
  IF avgRowLength = 0 THEN defaultRows
  ELSE LET estimateRows == bytesPerFile \div avgRowLength
       IN IF estimateRows > maxRows THEN maxRows ELSE estimateRows

\* Average row lengths: the small ones, and those around bytesPerFile and
\* beyond it.
RowLengths ==
  0..MaxAvgRowLength
  \cup {1024, 4096, bytesPerFile - 1, bytesPerFile, bytesPerFile + 1, 2147483647}

CallGetSuitableRows ==
  \E avgRowLength \in RowLengths :
    /\ Idle
    /\ call' = [fn |-> "GetSuitableRows",
                args |-> [avgRowLength |-> avgRowLength],
                out |-> GetSuitableRows(avgRowLength)]
    /\ UNCHANGED partitionVars

\* C11: GetSuitableRows gives 200000 for the average row length 0 and
\* otherwise the smaller of 134217728 divided by it (rounded down) and
\* 1000000; 32 gives 1000000, 1024 gives 131072 and 4096 gives 32768.
C11_SuitableRows ==
  call.fn = "GetSuitableRows" =>
    LET a == call.args.avgRowLength
        q == 134217728 \div a
    IN /\ call.out = (IF a = 0 THEN 200000 ELSE IF q < 1000000 THEN q ELSE 1000000)
       /\ a = 32 => call.out = 1000000
       /\ a = 1024 => call.out = 131072
       /\ a = 4096 => call.out = 32768

\* C11 witness: a row length whose quotient is above the cap.
C11_Witness ==
  /\ call.fn = "GetSuitableRows" /\ call.args.avgRowLength = 32
  /\ call.out = 1000000

\* ---- the key selector
MaxIndexRows == 2

\* An error value: nil, or a cause with the query it is annotated with.
nil == [cause |-> "", sql |-> <<>>]
Annotatef(cause, sql) == [cause |-> cause, sql |-> sql]

\* The numeric type names.
dataTypeNum ==
  {"INTEGER", "INT", "TINYINT", "SMALLINT", "MEDIUMINT", "BIGINT",
   "DECIMAL", "NUMERIC", "FLOAT", "DOUBLE"}

showIndexQuery(dbName, tableName) ==
  <<"S", "H", "O", "W", " ", "I", "N", "D", "E", "X", " ", "F", "R", "O", "M", " ", BT>>
  \o escapeString(dbName) \o <<BT, ".", BT>> \o escapeString(tableName) \o <<BT>>

\* The type colName2Type gives a column, "" for a column it does not hold.
typeOfColumn(colName2Type, col) ==
  IF col \in DOMAIN colName2Type THEN colName2Type[col] ELSE ""

\* The loop of getNumericIndex over the rows <<NON_UNIQUE, KEY_NAME,
\* COLUMN_NAME>> still to read.
RECURSIVE numericIndexLoopAnyPrimary(_, _, _)
numericIndexLoopAnyPrimary(results, colName2Type, uniqueColumnName) ==
  IF results = <<>> THEN uniqueColumnName
  ELSE LET oneRow == Head(results)
           ok == typeOfColumn(colName2Type, oneRow[3]) \in dataTypeNum
       IN IF oneRow[2] = "PRIMARY" THEN oneRow[3]
          ELSE numericIndexLoopAnyPrimary(Tail(results), colName2Type,
                 IF uniqueColumnName # "" /\ oneRow[1] = "0" /\ ok
                 THEN oneRow[3] ELSE uniqueColumnName)

RECURSIVE numericIndexLoop(_, _, _)
numericIndexLoop(results, colName2Type, uniqueColumnName) ==
  IF results = <<>> THEN uniqueColumnName
  ELSE LET oneRow == Head(results)
           ok == typeOfColumn(colName2Type, oneRow[3]) \in dataTypeNum
       IN IF ok /\ oneRow[2] = "PRIMARY" THEN oneRow[3]
          ELSE numericIndexLoop(Tail(results), colName2Type,
                 IF uniqueColumnName # "" /\ oneRow[1] = "0" /\ ok
                 THEN oneRow[3] ELSE uniqueColumnName)

\* db answers the index query with queryErr, or with the rows results and
\* the error scanErr of reading them.
getNumericIndex(db, meta) ==
  LET keyQuery == showIndexQuery(meta.database, meta.table)
  IN IF db.queryErr # ""
     THEN [field |-> "", err |-> Annotatef(db.queryErr, keyQuery), queries |-> <<keyQuery>>]
     ELSE IF db.scanErr # ""
     THEN [field |-> "", err |-> Annotatef(db.scanErr, keyQuery), queries |-> <<keyQuery>>]
     ELSE [field |-> numericIndexLoop(db.results, meta.colName2Type, ""),
           err |-> nil, queries |-> <<keyQuery>>]

pickupPossibleFieldIndexFirst(meta, db) ==
  LET r == getNumericIndex(db, meta)
  IN IF r.err # nil THEN r
     ELSE IF meta.hasImplicitRowID THEN [r EXCEPT !.field = "_tidb_rowid"]
     ELSE r

pickupPossibleField(meta, db) ==
  IF meta.hasImplicitRowID
  THEN [field |-> "_tidb_rowid", err |-> nil, queries |-> <<>>]
  ELSE getNumericIndex(db, meta)

\* The tables and the answers of the server the key selector is called with.
IndexColumns == {"a", "b"}
ColumnTypes == {"BIGINT", "VARCHAR"}
IndexRows == {"0", "1"} \X {"PRIMARY", "uk"} \X IndexColumns
IndexLists == UNION {[1..n -> IndexRows] : n \in 0..MaxIndexRows}
Metas ==
  [database : {database}, table : {table}, hasImplicitRowID : BOOLEAN,
   colName2Type : [IndexColumns -> ColumnTypes]]
IndexAnswers ==
  [queryErr : {""}, scanErr : {""}, results : IndexLists]
  \cup [queryErr : {"bad connection"}, scanErr : {""}, results : {<<>>}]
  \cup [queryErr : {""}, scanErr : {"scan failed"}, results : {<<>>}]

CallPickupPossibleField ==
  \E meta \in Metas, db \in IndexAnswers :
    /\ Idle
    /\ call' = [fn |-> "pickupPossibleField",
                args |-> [meta |-> meta, db |-> db],
                out |-> pickupPossibleField(meta, db)]
    /\ UNCHANGED partitionVars

\* What the claims say of an index row.
IsNumeric(meta, col) == typeOfColumn(meta.colName2Type, col) \in dataTypeNum
NumericPrimaryRows(meta, results) ==
  {i \in 1..Len(results) : results[i][2] = "PRIMARY" /\ IsNumeric(meta, results[i][3])}
NumericUniqueRows(meta, results) ==
  {i \in 1..Len(results) : results[i][1] = "0" /\ IsNumeric(meta, results[i][3])}
Answered == call.args.db.queryErr = "" /\ call.args.db.scanErr = ""

\* C12: without an implicit row id and without a PRIMARY key on a numeric
\* column, a table with a unique index on a numeric column gets the column of
\* such an index as its ordering key, and not no key.
C12_UniqueKeyChosen ==
  call.fn = "pickupPossibleField" =>
    LET meta == call.args.meta
        results == call.args.db.results
    IN (/\ ~meta.hasImplicitRowID /\ Answered
        /\ NumericPrimaryRows(meta, results) = {}
        /\ NumericUniqueRows(meta, results) # {})
         => /\ call.out.err = nil
            /\ \E i \in NumericUniqueRows(meta, results) : call.out.field = results[i][3]

\* C13: with an implicit row id pickupPossibleField returns _tidb_rowid
\* without an error and without a query, whatever the index list; without
\* one it asks for the index list, once.
C13_ImplicitRowIDFirst ==
  call.fn = "pickupPossibleField" =>
    IF call.args.meta.hasImplicitRowID
    THEN /\ call.out.field = "_tidb_rowid" /\ call.out.err = nil
         /\ call.out.queries = <<>>
    ELSE call.out.queries
           = <<showIndexQuery(call.args.meta.database, call.args.meta.table)>>

\* C13 witness: an implicit row id, and a server that would fail the index
\* query.
C13_Witness ==
  /\ call.fn = "pickupPossibleField" /\ call.args.meta.hasImplicitRowID
  /\ call.args.db.queryErr # ""
  /\ call.out.field = "_tidb_rowid"

\* C14: the column getNumericIndex returns is empty or of a numeric type, and
\* when a PRIMARY row has a numeric column the column of the first such row
\* is returned, also after rows of unique indexes.
C14_NumericOnly ==
  (call.fn = "pickupPossibleField" /\ ~call.args.meta.hasImplicitRowID) =>
    LET meta == call.args.meta
        results == call.args.db.results
        P == NumericPrimaryRows(meta, results)
    IN /\ call.out.field = "" \/ IsNumeric(meta, call.out.field)
       /\ (Answered /\ P # {}) =>
            call.out.field = results[CHOOSE i \in P : \A j \in P : i <= j][3]

\* C14 witness: the row of a unique index on a numeric column, then a
\* PRIMARY row on another numeric column, which is the one returned.
C14_Witness ==
  /\ call.fn = "pickupPossibleField" /\ ~call.args.meta.hasImplicitRowID
  /\ Answered /\ Len(call.args.db.results) = 2
  /\ call.args.db.results[1][1] = "0" /\ call.args.db.results[1][2] = "uk"
  /\ IsNumeric(call.args.meta, call.args.db.results[1][3])
  /\ call.args.db.results[2][2] = "PRIMARY"
  /\ call.args.db.results[2][3] # call.args.db.results[1][3]
  /\ call.out.field = call.args.db.results[2][3]

\* ---- the probe for the implicit row id
errBadFieldCode == 1054

UpperCase == <<"A", "B", "C", "D", "E", "F", "G", "H", "I", "J", "K", "L", "M",
               "N", "O", "P", "Q", "R", "S", "T", "U", "V", "W", "X", "Y", "Z">>
LowerCase == <<"a", "b", "c", "d", "e", "f", "g", "h", "i", "j", "k", "l", "m",
               "n", "o", "p", "q", "r", "s", "t", "u", "v", "w", "x", "y", "z">>
\* strings.ToLower
ToLower(s) ==
  [i \in 1..Len(s) |->
     IF \E k \in 1..26 : UpperCase[k] = s[i]
     THEN LowerCase[CHOOSE k \in 1..26 : UpperCase[k] = s[i]]
     ELSE s[i]]
\* strings.Contains
Contains(s, substr) ==
  \E i \in 1..(Len(s) - Len(substr) + 1) : SubSeq(s, i, i + Len(substr) - 1) = substr

tiDBRowIDQuery(dbName, tableName) ==
  <<"S", "E", "L", "E", "C", "T", " ", "_", "t", "i", "d", "b", "_", "r", "o", "w", "i", "d",
    " ", "f", "r", "o", "m", " ", BT>>
  \o escapeString(dbName) \o <<BT, ".", BT>> \o escapeString(tableName)
  \o <<BT, " ", "L", "I", "M", "I", "T", " ", "0">>

\* db answers the probe with the error execErr, whose text is message
\* ("" when the probe succeeds).
SelectTiDBRowID(db, dbName, tableName) ==
  LET query == tiDBRowIDQuery(dbName, tableName)
  IN IF db.execErr # ""
     THEN LET errMsg == ToLower(db.message)
          IN IF Contains(errMsg, NumText(errBadFieldCode))
             THEN [has |-> FALSE, err |-> nil]
             ELSE [has |-> FALSE, err |-> Annotatef(db.execErr, query)]
     ELSE [has |-> TRUE, err |-> nil]

\* The errors a server answers the probe with: its number (0 for an error
\* that is not the server's) and its text.
ProbeErrors == {"unknown column", "no such table", "access denied", "mock error"}
ErrorNumber(e) ==
  CASE e = "unknown column" -> 1054
    [] e = "no such table" -> 1146
    [] e = "access denied" -> 1045
    [] OTHER -> 0
ErrorText(e, dbName, tableName) ==
  CASE e = "unknown column" ->
         <<"E", "r", "r", "o", "r", " ", "1", "0", "5", "4", ":", " ", "U", "n", "k", "n",
           "o", "w", "n", " ", "c", "o", "l", "u", "m", "n">>
    [] e = "no such table" ->
         <<"E", "r", "r", "o", "r", " ", "1", "1", "4", "6", ":", " ", "T", "a", "b", "l",
           "e", " ", "'">> \o dbName \o <<".">> \o tableName
         \o <<"'", " ", "d", "o", "e", "s", "n", "'", "t", " ", "e", "x", "i", "s", "t">>
    [] e = "access denied" ->
         <<"E", "r", "r", "o", "r", " ", "1", "0", "4", "5", ":", " ", "A", "c", "c", "e",
           "s", "s", " ", "d", "e", "n", "i", "e", "d">>
    [] e = "mock error" -> <<"m", "o", "c", "k", " ", "e", "r", "r", "o", "r">>
    [] OTHER -> <<>>
ProbeTables == {<<"t">>, <<"t", "1", "0", "5", "4">>, <<"t", "1", "0", "4", "5">>}

CallSelectTiDBRowID ==
  \E tableName \in ProbeTables, e \in ProbeErrors \cup {""} :
    /\ Idle
    /\ call' = [fn |-> "SelectTiDBRowID",
                args |-> [db |-> [execErr |-> e,
                                  message |-> ErrorText(e, database, tableName)],
                          database |-> database, table |-> tableName],
                out |-> SelectTiDBRowID([execErr |-> e,
                                         message |-> ErrorText(e, database, tableName)],
                                        database, tableName)]
    /\ UNCHANGED partitionVars

\* C15: SelectTiDBRowID gives (true, nil) when the probe succeeds, (false,
\* nil) when the server answers with the unknown-column error 1054, and for
\* every other error false with that error as the cause, annotated with the
\* probe's query.
C15_ProbeOutcomes ==
  call.fn = "SelectTiDBRowID" =>
    LET e == call.args.db.execErr
    IN /\ e = "" => call.out = [has |-> TRUE, err |-> nil]
       /\ (e # "" /\ ErrorNumber(e) = 1054) => call.out = [has |-> FALSE, err |-> nil]
       /\ (e # "" /\ ErrorNumber(e) # 1054) =>
            call.out = [has |-> FALSE,
                        err |-> [cause |-> e,
                                 sql |-> tiDBRowIDQuery(call.args.database, call.args.table)]]

\* ---- the estimate of a table's rows
MaxColumns == 2

\* strings.TrimSpace
RECURSIVE TrimLeft(_)
TrimLeft(s) == IF s # <<>> /\ Head(s) = " " THEN TrimLeft(Tail(s)) ELSE s
RECURSIVE TrimRight(_)
TrimRight(s) ==
  IF s # <<>> /\ s[Len(s)] = " " THEN TrimRight(SubSeq(s, 1, Len(s) - 1)) ELSE s
TrimSpace(s) == TrimRight(TrimLeft(s))

\* strings.EqualFold, on the letters A to Z
EqualFold(s, t) == ToLower(s) = ToLower(t)

\* strconv.ParseFloat on the texts digits[.digits]: whether the text is a
\* number, and the number's whole part.
ParseFloat(text) ==
  LET dots == {i \in 1..Len(text) : text[i] = "."}
      dot == IF dots = {} THEN Len(text) + 1 ELSE CHOOSE i \in dots : \A j \in dots : i <= j
      whole == SubSeq(text, 1, dot - 1)
      frac == SubSeq(text, dot + 1, Len(text))
  IN [ok |-> /\ \A i \in 1..Len(whole) : whole[i] \in DigitSet
             /\ \A i \in 1..Len(frac) : frac[i] \in DigitSet
             /\ Len(whole) + Len(frac) >= 1,
      whole |-> whole]

\* The first column, by position, that has one of the names; 0 for none
\* (fieldIndex + 1).
firstFieldByName(columns, fieldNames) ==
  LET named == {j \in 1..Len(fieldNames) :
                  \E i \in 1..Len(columns) : EqualFold(columns[i], fieldNames[j])}
  IN IF named = {} THEN 0
     ELSE LET j == CHOOSE j \in named : \A l \in named : j <= l
          IN CHOOSE i \in 1..Len(columns) :
               /\ EqualFold(columns[i], fieldNames[j])
               /\ \A l \in 1..(i - 1) : ~EqualFold(columns[l], fieldNames[j])

firstField(columns, fieldNames) ==
  LET found == {i \in 1..Len(columns) :
                  \E j \in 1..Len(fieldNames) : EqualFold(columns[i], fieldNames[j])}
  IN IF found = {} THEN 0 ELSE CHOOSE i \in found : \A l \in found : i <= l

\* db answers the query with queryErr, or with the columns and, when hasRow,
\* a first row oneRow of their values; rowsErr is what rows.Err() gives and
\* scanErr what rows.Scan gives.  Without a row rows.Next has closed the rows
\* and rows.Columns fails.
detectEstimateRows(db, query, fieldNames) ==
  IF db.queryErr # "" THEN 0
  ELSE IF ~db.hasRow THEN 0
  ELSE IF db.rowsErr # "" THEN 0
  ELSE LET fieldIndex == firstField(db.columns, fieldNames)
       IN IF db.scanErr # "" \/ fieldIndex = 0 THEN 0
          ELSE LET estRows == ParseFloat(db.oneRow[fieldIndex])
               IN IF ~estRows.ok THEN 0 ELSE NumVal(estRows.whole)

estimateFieldNames ==
  << <<"r", "o", "w", "s">>, <<"e", "s", "t", "R", "o", "w", "s">>,
     <<"c", "o", "u", "n", "t">> >>

estimateQuery(dbName, tableName, field, where) ==
  (IF TrimSpace(field) = <<"*">> \/ TrimSpace(field) = <<>>
   THEN <<"E", "X", "P", "L", "A", "I", "N", " ", "S", "E", "L", "E", "C", "T", " ", "*",
          " ", "F", "R", "O", "M", " ", BT>>
   ELSE <<"E", "X", "P", "L", "A", "I", "N", " ", "S", "E", "L", "E", "C", "T", " ", BT>>
        \o escapeString(field) \o <<BT, " ", "F", "R", "O", "M", " ", BT>>)
  \o escapeString(dbName) \o <<BT, ".", BT>> \o escapeString(tableName) \o <<BT>>
  \o (IF where # <<>> THEN <<" ", "W", "H", "E", "R", "E", " ">> \o where ELSE <<>>)

estimateCount(dbName, tableName, db, field, where) ==
  LET query == estimateQuery(dbName, tableName, field, where)
      estRows == detectEstimateRows(db, query, estimateFieldNames)
  IN [count |-> IF estRows > 0 THEN estRows ELSE 0, queries |-> <<query>>]

\* The answers to EXPLAIN: up to MaxColumns columns and a first row.
ExplainColumns ==
  { <<"i", "d">>, <<"r", "o", "w", "s">>, <<"E", "S", "T", "R", "O", "W", "S">>,
    <<"c", "o", "u", "n", "t">> }
ExplainValues ==
  { <<"7">>, <<"1", "2", ".", "5", "0">>, <<"1", ".", "5", "x">>, <<>> }
ExplainAnswers ==
  UNION {[queryErr : {""}, hasRow : {TRUE}, rowsErr : {""}, scanErr : {"", "scan failed"},
          columns : [1..n -> ExplainColumns], oneRow : [1..n -> ExplainValues]]
         : n \in 0..MaxColumns}
  \cup [queryErr : {"bad connection"}, hasRow : {FALSE}, rowsErr : {""}, scanErr : {""},
        columns : {<<>>}, oneRow : {<<>>}]
  \cup [queryErr : {""}, hasRow : {FALSE}, rowsErr : {""}, scanErr : {""},
        columns : [1..1 -> ExplainColumns], oneRow : {<<>>}]
  \cup [queryErr : {""}, hasRow : {TRUE}, rowsErr : {"rows failed"}, scanErr : {""},
        columns : [1..1 -> ExplainColumns], oneRow : [1..1 -> ExplainValues]]
\* The field and the caller's filter of the call.
EstimateQueries ==
  { [field |-> <<"*">>, where |-> <<>>],
    [field |-> <<" ">>, where |-> <<BT, "x", BT, "=", "1">>],
    [field |-> <<"i", BT, "d">>, where |-> <<>>] }

CallEstimateCount ==
  \E db \in ExplainAnswers, q \in EstimateQueries :
    /\ Idle
    /\ call' = [fn |-> "estimateCount",
                args |-> [dbName |-> database, tableName |-> table, db |-> db,
                          field |-> q.field, where |-> q.where],
                out |-> estimateCount(database, table, db, q.field, q.where)]
    /\ UNCHANGED partitionVars

\* The numbers among the values, with their whole parts.
WholePart(text) ==
  CASE text = <<"7">> -> 7
    [] text = <<"1", "2", ".", "5", "0">> -> 12
    [] OTHER -> -1

\* C17: estimateCount gives 0 when the query fails, when there is no row, when
\* the rows or the scan fail, when no column is named rows, estRows or count
\* in any letter case, and when the value is no number; otherwise the whole
\* part of the first row's value in the first such column by position.
C17_EstimateOrZero ==
  call.fn = "estimateCount" =>
    LET db == call.args.db
        named == {i \in 1..Len(db.columns) :
                    ToLower(db.columns[i])
                      \in {<<"r", "o", "w", "s">>, <<"e", "s", "t", "r", "o", "w", "s">>,
                           <<"c", "o", "u", "n", "t">>}}
        first == CHOOSE i \in named : \A l \in named : i <= l
        failed == \/ db.queryErr # "" \/ ~db.hasRow \/ db.rowsErr # "" \/ db.scanErr # ""
                  \/ named = {}
    IN call.out.count = (IF failed \/ WholePart(db.oneRow[first]) < 0 THEN 0
                         ELSE WholePart(db.oneRow[first]))

\* C17 witness: the columns count and rows, in this order, with different
\* numbers; the number of count is returned.
C17_Witness ==
  /\ call.fn = "estimateCount"
  /\ call.args.db.columns = << <<"c", "o", "u", "n", "t">>, <<"r", "o", "w", "s">> >>
  /\ call.args.db.oneRow = << <<"1", "2", ".", "5", "0">>, <<"7">> >>
  /\ call.args.db.scanErr = ""
  /\ call.out.count = 12

\* ---- the list of databases and tables
MaxTableRows == 2

TableTypeViewStr == "VIEW"

\* The table type a type name stands for, or an error for an unknown name.
ParseTableType(tableTypeStr) ==
  CASE tableTypeStr = "BASE TABLE" -> [type |-> TableTypeBase, err |-> ""]
    [] tableTypeStr = "VIEW" -> [type |-> TableTypeView, err |-> ""]
    [] OTHER -> [type |-> TableTypeBase, err |-> "unknown table type"]

\* fmt's %s of a table type
TableTypeText(tableType) ==
  IF tableType = TableTypeBase THEN <<"B", "A", "S", "E", " ", "T", "A", "B", "L", "E">>
  ELSE <<"V", "I", "E", "W">>

infoSchemaQuery(tableTypes) ==
  <<"S", "E", "L", "E", "C", "T", " ", "T", "A", "B", "L", "E", "_", "S", "C", "H", "E", "M",
    "A", ",", "T", "A", "B", "L", "E", "_", "N", "A", "M", "E", ",", "T", "A", "B", "L", "E",
    "_", "T", "Y", "P", "E", ",", "A", "V", "G", "_", "R", "O", "W", "_", "L", "E", "N", "G",
    "T", "H", " ", "F", "R", "O", "M", " ", "I", "N", "F", "O", "R", "M", "A", "T", "I", "O",
    "N", "_", "S", "C", "H", "E", "M", "A", ".", "T", "A", "B", "L", "E", "S", " ", "W", "H",
    "E", "R", "E", " ">>
  \o Join([i \in 1..Len(tableTypes) |->
             <<"T", "A", "B", "L", "E", "_", "T", "Y", "P", "E", "=", "'">>
             \o TableTypeText(tableTypes[i]) \o <<"'">>],
          <<" ", "O", "R", " ">>)

showTableStatusQuery(schema) ==
  <<"S", "H", "O", "W", " ", "T", "A", "B", "L", "E", " ", "S", "T", "A", "T", "U", "S", " ",
    "F", "R", "O", "M", " ", BT>> \o escapeString(schema) \o <<BT>>

NULL == <<"N", "U", "L", "L">>

\* The handler of one row of INFORMATION_SCHEMA.TABLES, and the rows after
\* it.  A row is its values <<TABLE_SCHEMA, TABLE_NAME, TABLE_TYPE,
\* AVG_ROW_LENGTH>> and fail, the column at which rows.Scan fails (0: none);
\* Scan has assigned the columns before that one.  scanned holds the
\* variables schema, table and tableTypeStr, which outlive the row.  The
\* error of Scan is tested through err, the error of the whole query, which
\* is nil while the rows are read.
RECURSIVE readInfoSchemaRows(_, _, _)
readInfoSchemaRows(rows, scanned, dbTables) ==
  IF rows = <<>> THEN [err |-> "", tables |-> dbTables]
  ELSE LET r == Head(rows)
           assigned(k) == r.fail = 0 \/ k < r.fail
           schema == IF assigned(1) THEN r.vals[1] ELSE scanned.schema
           table_ == IF assigned(2) THEN r.vals[2] ELSE scanned.table
           tableTypeStr == IF assigned(3) THEN r.vals[3] ELSE scanned.tableTypeStr
           avgRowLength == IF r.fail = 0 /\ r.vals[4] # NULL THEN NumVal(r.vals[4]) ELSE 0
           parsed == ParseTableType(tableTypeStr)
       IN IF parsed.err # "" THEN [err |-> parsed.err, tables |-> <<>>]
          ELSE readInfoSchemaRows(
                 Tail(rows),
                 [schema |-> schema, table |-> table_, tableTypeStr |-> tableTypeStr],
                 IF schema \in DOMAIN dbTables
                 THEN [dbTables EXCEPT ![schema] =
                         Append(@, [Name |-> table_, AvgRowSize |-> avgRowLength,
                                    Type |-> parsed.type])]
                 ELSE dbTables)

\* ListAllDatabasesTables with asap: db answers the one query with queryErr,
\* or with rows and the error rowsErr at their end.
listTablesAsap(db, databaseNames, tableTypes) ==
  LET query == infoSchemaQuery(tableTypes)
      empty == [schema \in {databaseNames[i] : i \in 1..Len(databaseNames)} |-> <<>>]
  IN IF db.queryErr # ""
     THEN [tables |-> <<>>, err |-> Annotatef(db.queryErr, query), queries |-> <<query>>]
     ELSE LET read == readInfoSchemaRows(
                        db.rows, [schema |-> <<>>, table |-> <<>>, tableTypeStr |-> ""], empty)
          IN IF read.err # ""
             THEN [tables |-> <<>>, err |-> Annotatef(read.err, query), queries |-> <<query>>]
             ELSE IF db.rowsErr # ""
             THEN [tables |-> <<>>, err |-> Annotatef(db.rowsErr, query), queries |-> <<query>>]
             ELSE [tables |-> read.tables, err |-> nil, queries |-> <<query>>]

\* strconv.ParseUint(s, 10, 64) on short texts: the number, or an error.
ParseUint(text) ==
  IF text # <<>> /\ \A i \in 1..Len(text) : text[i] \in DigitSet
  THEN [n |-> NumVal(text), err |-> ""]
  ELSE [n |-> 0, err |-> "invalid syntax"]

\* The loop over the rows <<NAME, ENGINE, AVG_ROW_LENGTH, COMMENT>> of SHOW
\* TABLE STATUS for one schema: the tables kept, or the first error.
RECURSIVE readStatusRows(_, _, _)
readStatusRows(results, selectedTableType, kept) ==
  IF results = <<>> THEN [err |-> "", tables |-> kept]
  ELSE LET oneRow == Head(results)
           engine == oneRow[2]
           comment == oneRow[4]
           parsed == IF oneRow[3] # <<>> THEN ParseUint(oneRow[3]) ELSE [n |-> 0, err |-> ""]
           isView == engine = "" /\ (comment = "" \/ comment = TableTypeViewStr)
           tableType == IF isView THEN TableTypeView ELSE TableTypeBase
       IN IF parsed.err # "" THEN [err |-> parsed.err, tables |-> <<>>]
          ELSE IF (~isView /\ engine = "") \/ tableType \notin selectedTableType
          THEN readStatusRows(Tail(results), selectedTableType, kept)
          ELSE readStatusRows(Tail(results), selectedTableType,
                 Append(kept, [Name |-> oneRow[1], AvgRowSize |-> parsed.n,
                               Type |-> tableType]))

\* ListAllDatabasesTables without asap, for the schemas still to list: db
\* answers the query of each schema with queryErr, or with results unless
\* reading them fails with scanErr.
RECURSIVE listTablesByStatus(_, _, _, _, _)
listTablesByStatus(db, databaseNames, selectedTableType, dbTables, queries) ==
  IF databaseNames = <<>> THEN [tables |-> dbTables, err |-> nil, queries |-> queries]
  ELSE LET schema == Head(databaseNames)
           query == showTableStatusQuery(schema)
           answer == db.status[schema]
           read == readStatusRows(answer.results, selectedTableType, <<>>)
           failed(cause) == [tables |-> <<>>, err |-> Annotatef(cause, query),
                             queries |-> Append(queries, query)]
       IN IF answer.queryErr # "" THEN failed(answer.queryErr)
          ELSE IF answer.scanErr # "" THEN failed(answer.scanErr)
          ELSE IF read.err # "" THEN failed(read.err)
          ELSE listTablesByStatus(db, Tail(databaseNames), selectedTableType,
                                  (schema :> read.tables) @@ dbTables,
                                  Append(queries, query))

ListAllDatabasesTables(db, databaseNames, asap, tableTypes) ==
  IF asap THEN listTablesAsap(db, databaseNames, tableTypes)
  ELSE listTablesByStatus(db, databaseNames,
                          {tableTypes[i] : i \in 1..Len(tableTypes)}, <<>>, <<>>)

\* The schemas asked for, and what the server answers.
SchemaLists == { << <<"d", "1">> >>, << <<"d", "1">>, <<"d", "2">> >> }
TableTypeLists == { <<TableTypeBase>>, <<TableTypeBase, TableTypeView>> }
InfoSchemaRows ==
  { [vals |-> << <<"d", "1">>, <<"t", "1">>, "BASE TABLE", <<"1", "0">> >>, fail |-> 0],
    [vals |-> << <<"d", "1">>, <<"v", "1">>, "VIEW", NULL>>, fail |-> 0],
    [vals |-> << <<"d", "3">>, <<"t", "3">>, "BASE TABLE", <<"5">> >>, fail |-> 0],
    [vals |-> << <<"d", "1">>, <<"s", "1">>, "SEQUENCE", <<"0">> >>, fail |-> 0],
    [vals |-> << <<"d", "1">>, NULL, "BASE TABLE", <<"1", "0">> >>, fail |-> 2],
    [vals |-> << <<"d", "1">>, <<"t", "2">>, "BASE TABLE", <<"x">> >>, fail |-> 4] }
InfoSchemaAnswers ==
  [queryErr : {""}, rowsErr : {"", "rows failed"},
   rows : UNION {[1..n -> InfoSchemaRows] : n \in 0..MaxTableRows}]
  \cup [queryErr : {"bad connection"}, rowsErr : {""}, rows : {<<>>}]
StatusRows ==
  { << <<"t", "1">>, "InnoDB", <<"1", "0">>, "" >>,
    << <<"v", "1">>, "", <<>>, "VIEW" >>,
    << <<"b", "1">>, "", <<>>, "broken" >>,
    << <<"t", "2">>, "InnoDB", <<"x">>, "" >>,
    << <<"t", "3">>, "InnoDB", <<>>, "" >> }
StatusAnswers ==
  [queryErr : {""}, scanErr : {""},
   results : UNION {[1..n -> StatusRows] : n \in 0..MaxTableRows}]
  \cup [queryErr : {"bad connection"}, scanErr : {""}, results : {<<>>}]
  \cup [queryErr : {""}, scanErr : {"scan failed"}, results : {<<>>}]
LastStatusAnswers ==
  {a \in StatusAnswers : Len(a.results) = 0}
  \cup {a \in StatusAnswers : a.results \in { << << <<"t", "1">>, "InnoDB", <<"1", "0">>, "" >> >>,
                                              << << <<"t", "2">>, "InnoDB", <<"x">>, "" >> >> }}

CallListAllDatabasesTables ==
  \E databaseNames \in SchemaLists, tableTypes \in TableTypeLists :
    \/ \E db \in InfoSchemaAnswers :
         /\ Idle
         /\ call' = [fn |-> "ListAllDatabasesTables",
                     args |-> [db |-> db, databaseNames |-> databaseNames, asap |-> TRUE,
                               tableTypes |-> tableTypes],
                     out |-> ListAllDatabasesTables(db, databaseNames, TRUE, tableTypes)]
         /\ UNCHANGED partitionVars
    \/ \E first \in StatusAnswers, last \in LastStatusAnswers :
         LET db == [status |-> (<<"d", "1">> :> first) @@ (<<"d", "2">> :> last)]
         IN /\ Idle
            /\ call' = [fn |-> "ListAllDatabasesTables",
                        args |-> [db |-> db, databaseNames |-> databaseNames,
                                  asap |-> FALSE, tableTypes |-> tableTypes],
                        out |-> ListAllDatabasesTables(db, databaseNames, FALSE, tableTypes)]
            /\ UNCHANGED partitionVars

\* Whether reading the table list fails: the query, the scan of a row, an
\* unknown table type, an AVG_ROW_LENGTH that is no number, or the rows' end.
ReadFails ==
  LET a == call.args
  IN IF a.asap
     THEN \/ a.db.queryErr # "" \/ a.db.rowsErr # ""
          \/ \E i \in 1..Len(a.db.rows) :
               \/ a.db.rows[i].fail # 0
               \/ a.db.rows[i].vals[3] \notin {"BASE TABLE", "VIEW"}
     ELSE \E k \in 1..Len(a.databaseNames) :
            LET answer == a.db.status[a.databaseNames[k]]
            IN \/ answer.queryErr # "" \/ answer.scanErr # ""
               \/ \E i \in 1..Len(answer.results) :
                    /\ answer.results[i][3] # <<>>
                    /\ \E j \in 1..Len(answer.results[i][3]) :
                         answer.results[i][3][j] \notin DigitSet

\* C18: when reading the table list fails, in either mode,
\* ListAllDatabasesTables returns no table list and an error annotated with
\* the text of a query it issued.
C18_ListFailuresSurface ==
  (call.fn = "ListAllDatabasesTables" /\ ReadFails) =>
    /\ call.out.err # nil
    /\ call.out.tables = <<>>
    /\ \E i \in 1..Len(call.out.queries) : call.out.err.sql = call.out.queries[i]

NextFn ==
  \/ CallGetSuitableRows
  \/ CallPickupPossibleField
  \/ CallSelectTiDBRowID
  \/ CallEstimateCount
  \/ CallListAllDatabasesTables

SpecFn == InitCall /\ [][NextFn]_vars

\* ------------------------------------- buildWhereClauses on any boundaries
\* buildWhereClauses called with boundary tuples in any order and of any
\* length near the number of columns.  It has no error result: it returns
\* the predicates, or an index out of range stops it.
MaxUncheckedCols == 2
MaxUncheckedBounds == 2

\* buildCompareClause reads bound[i] for every column i.
buildCompareClausePanics(quotaCols, bound) == Len(bound) < Len(quotaCols)

\* getCommonLength reads up[i] for every i at which low has agreed so far.
getCommonLengthPanics(low, up) ==
  Len(up) < Len(low) /\ SubSeq(low, 1, Len(up)) = up

\* The first index out of range in buildBetweenClause, if any: quotaCols[i]
\* of the common prefix, quotaCols[0], low[0] and up[0] of singleBetween, and
\* the bounds of the two buildCompareClause calls.
buildBetweenClausePanics(quotaCols, low, up) ==
  \/ getCommonLengthPanics(low, up)
  \/ LET commonLen == getCommonLength(low, up)
         rest == Len(quotaCols) - commonLen
     IN /\ ~(commonLen > 0 /\ commonLen = Len(low))
        /\ \/ rest <= 0
           \/ Len(low) - commonLen < 1 \/ Len(up) - commonLen < 1
           \/ rest >= 2 /\ (Len(low) < Len(quotaCols) \/ Len(up) < Len(quotaCols))

buildWhereClausesPanics(colNames, vals) ==
  /\ Len(colNames) # 0 /\ Len(vals) # 0
  /\ \/ buildCompareClausePanics(colNames, vals[1])
     \/ \E i \in 1..(Len(vals) - 1) :
          buildBetweenClausePanics(colNames, vals[i], vals[i + 1])
     \/ buildCompareClausePanics(colNames, vals[Len(vals)])

\* What a call of buildWhereClauses comes to.
buildWhereClausesOutcome(colNames, vals) ==
  IF buildWhereClausesPanics(colNames, vals)
  THEN [failed |-> TRUE, where |-> <<>>]
  ELSE [failed |-> FALSE, where |-> buildWhereClauses(colNames, vals)]

UncheckedTuples(n) == UNION {[1..k -> 0..1] : k \in (n - 1)..(n + 1)}

CallBuildWhereClausesUnchecked ==
  \E n \in 1..MaxUncheckedCols :
    \E vals \in UNION {[1..m -> UncheckedTuples(n)] : m \in 1..MaxUncheckedBounds} :
      LET lits == [i \in 1..Len(vals) |-> Literals(vals[i])]
      IN /\ Idle
         /\ call' = [fn |-> "buildWhereClauses",
                     args |-> [handleColNames |-> KeyCols(n), handleVals |-> lits],
                     out |-> buildWhereClausesOutcome(KeyCols(n), lits)]
         /\ UNCHANGED partitionVars

NextUnchecked == CallBuildWhereClausesUnchecked

SpecUnchecked == InitCall /\ [][NextUnchecked]_vars

\* Whether the boundaries of the call break buildWhereClauses' precondition:
\* a tuple whose length is not the number of columns, or two consecutive
\* tuples in decreasing order.
WrongLength ==
  \E i \in 1..Len(call.args.handleVals) :
    Len(call.args.handleVals[i]) # Len(call.args.handleColNames)
OutOfOrder ==
  /\ ~WrongLength
  /\ \E i \in 1..(Len(call.args.handleVals) - 1) :
       LexLess(Values(call.args.handleVals[i + 1]), Values(call.args.handleVals[i]))

\* C19: given boundaries out of order, or a boundary tuple of the wrong
\* length, buildWhereClauses fails instead of returning predicates.
C19_FailsLoudly ==
  (call.fn = "buildWhereClauses" /\ (WrongLength \/ OutOfOrder)) => call.out.failed

\* ------------------------------------------------ the chunk tasks of a table
\* The chunk tasks concurrentDumpTable sends to the task channel, as the
\* tests take them from it: partition by partition, one task per where
\* clause, the chunk index running on from one partition to the next.  A
\* table that is not partitioned has the one partition "".
MaxPartitions == 2
MaxPartitionBounds == 2

partitionName(i) == <<"p">> \o NumText(i - 1)
PartitionLists ==
  {<<<<>>>>} \cup {[i \in 1..n |-> partitionName(i)] : n \in 1..MaxPartitions}

\* The boundaries of one partition, in the key's order.
PartitionBoundaries ==
  {[i \in 1..Len(s) |-> <<NumText(s[i])>>] :
     s \in {b \in UNION {[1..m -> 0..1] : m \in 0..MaxPartitionBounds} :
              \A i \in 1..(Len(b) - 1) : b[i] <= b[i + 1]}}

\* The where clauses of one partition: "" alone when it has no boundary.
expectedWhereClauses(colNames, vals) ==
  IF vals = <<>> THEN <<<<>>>> ELSE buildWhereClauses(colNames, vals)

taskChunkIndexPerPartition(startChunkIdx, i) == i

\* The chunk index of the i-th where clause (from 0) of a partition whose
\* first chunk has the index startChunkIdx.
taskChunkIndex(startChunkIdx, i) == startChunkIdx + i

taskQuery(partition, colNames, where, w) ==
  buildSelectQuery(database, table, <<"*">>, partition,
                   buildWhereCondition(where, w),
                   buildOrderByClauseString(colNames))

\* concurrentDumpTable is called for a table: its partitions, its ordering
\* key and the boundaries of each partition are known, no task is sent yet.
CallConcurrentDumpTable ==
  \E partitions \in PartitionLists, where \in {<<>>, <<BT, "x", BT, "=", "1">>} :
    \E cached \in [1..Len(partitions) -> PartitionBoundaries] :
      /\ Idle
      /\ call' = [fn |-> "concurrentDumpTable",
                  args |-> [partitions |-> partitions, handleColNames |-> KeyCols(1),
                            cachedHandleVals |-> cached, where |-> where],
                  partition |-> 1, chunk |-> 0, startChunkIdx |-> 0]
      /\ UNCHANGED partitionVars

\* The next task is sent to the task channel.
SendTask ==
  /\ call.fn = "concurrentDumpTable"
  /\ call.partition <= Len(call.args.partitions)
  /\ \A clauses \in {expectedWhereClauses(call.args.handleColNames,
                                           call.args.cachedHandleVals[call.partition])} :
       /\ tasks' = Append(tasks,
            [ChunkIndex |-> taskChunkIndex(call.startChunkIdx, call.chunk),
             query |-> taskQuery(call.args.partitions[call.partition],
                                 call.args.handleColNames, call.args.where,
                                 clauses[call.chunk + 1])])
       /\ call' = IF call.chunk + 1 < Len(clauses)
                  THEN [call EXCEPT !.chunk = @ + 1]
                  ELSE [call EXCEPT !.partition = @ + 1, !.chunk = 0,
                                    !.startChunkIdx = @ + Len(clauses)]
  /\ UNCHANGED <<handleColNames, handleVals, confWhere, whereClauses, pc, conns>>

NextDump == CallConcurrentDumpTable \/ SendTask

SpecDump == InitCall /\ [][NextDump]_vars

\* The predicates of a table in order: those of its first partition, then
\* those of the next, each with the partition it belongs to.
RECURSIVE PredicateSequence(_, _, _)
PredicateSequence(partitions, colNames, cached) ==
  IF partitions = <<>> THEN <<>>
  ELSE LET clauses == expectedWhereClauses(colNames, cached[1])
       IN [k \in 1..Len(clauses) |-> [partition |-> partitions[1], where |-> clauses[k]]]
          \o PredicateSequence(Tail(partitions), colNames, Tail(cached))

AllSent == call.fn = "concurrentDumpTable" /\ call.partition > Len(call.args.partitions)

\* C20: the k-th task in the task channel (k from 0) has ChunkIndex k and the
\* query built from the k-th predicate of the table, the predicates of the
\* partitions following one another in partition order; when every task is
\* sent there is one task per predicate, and a table without partitions and
\* without boundaries has the single task 0, whose query has no range
\* predicate.
C20_TasksInPredicateOrder ==
  call.fn = "concurrentDumpTable" =>
    \A preds \in {PredicateSequence(call.args.partitions, call.args.handleColNames,
                                    call.args.cachedHandleVals)} :
      /\ Len(tasks) <= Len(preds)
      /\ \A k \in 1..Len(tasks) :
           /\ tasks[k].ChunkIndex = k - 1
           /\ tasks[k].query =
                buildSelectQuery(database, table, <<"*">>, preds[k].partition,
                                 buildWhereCondition(call.args.where, preds[k].where),
                                 buildOrderByClauseString(call.args.handleColNames))
      /\ AllSent => Len(tasks) = Len(preds)
      /\ (AllSent /\ call.args.partitions = <<<<>>>> /\ call.args.cachedHandleVals = <<<<>>>>) =>
           /\ Len(tasks) = 1
           /\ tasks[1].ChunkIndex = 0
           /\ QueryCondition(tasks[1].query) =
                QueryCondition(taskQuery(<<>>, <<>>, call.args.where, <<>>))

\* Two partitions, the first with one boundary and the second with two
\* different ones: five tasks are sent, the third being the first of the
\* second partition.
C20_Witness ==
  /\ AllSent
  /\ Len(call.args.partitions) = 2
  /\ Len(call.args.cachedHandleVals[1]) = 1
  /\ call.args.cachedHandleVals[2] = <<<<NumText(0)>>, <<NumText(1)>>>>
  /\ Len(tasks) = 5
  /\ tasks[3].ChunkIndex = 2

\* ------------------------------------------- createConnWithConsistency
\* The calls of createConnWithConsistency on the pool db, one after the
\* other.  A connection is [stmts, open, owner]: the statements executed on
\* it with success, whether it is still checked out of the pool, and who
\* holds it ("" when nobody does).
MaxConnCalls == 3

isolationQuery ==
  <<"S", "E", "T", " ", "S", "E", "S", "S", "I", "O", "N", " ", "T", "R", "A", "N", "S", "A", "C", "T", "I", "O", "N", " ", "I", "S", "O", "L", "A", "T", "I", "O", "N", " ", "L", "E", "V", "E", "L", " ", "R", "E", "P", "E", "A", "T", "A", "B", "L", "E", " ", "R", "E", "A", "D">>
startTransactionQuery ==
  <<"S", "T", "A", "R", "T", " ", "T", "R", "A", "N", "S", "A", "C", "T", "I", "O", "N", " ", "/", "*", "!", "4", "0", "1", "0", "8", " ", "W", "I", "T", "H", " ", "C", "O", "N", "S", "I", "S", "T", "E", "N", "T", " ", "S", "N", "A", "P", "S", "H", "O", "T", " ", "*", "/">>

\* What db.Conn and conn.ExecContext can answer: success, an error of the
\* server or the pool, the context cancelled.
ConnAnswers == {"", "server error", "context canceled"}

stepAfterIgnoringError(step, err) ==
  CASE step = "Conn" -> IF err # "" THEN "return" ELSE "Isolation"
    [] step = "Isolation" -> "Start"
    [] step = "Start" -> "return"

\* The statement createConnWithConsistency goes on with after a step that
\* answered err: every error returns.
stepAfter(step, err) ==
  IF err # "" THEN "return"
  ELSE CASE step = "Conn" -> "Isolation"
         [] step = "Isolation" -> "Start"
         [] step = "Start" -> "return"

Running(step) == call.fn = "createConnWithConsistency" /\ call.step = step

CallCreateConnWithConsistency ==
  /\ pc = "call"
  /\ \/ call = NoCall
     \/ Running("return") /\ call.n < MaxConnCalls
  /\ call' = [fn |-> "createConnWithConsistency", step |-> "Conn",
              n |-> IF call = NoCall THEN 1 ELSE call.n + 1,
              conn |-> 0, out |-> [conn |-> 0, err |-> nil]]
  /\ UNCHANGED partitionVars

\* conn, err := db.Conn(ctx)
DbConn ==
  /\ Running("Conn")
  /\ \E err \in ConnAnswers :
       IF err # ""
       THEN /\ call' = [call EXCEPT !.step = stepAfter("Conn", err),
                                    !.out = [conn |-> 0, err |-> Annotatef(err, <<>>)]]
            /\ UNCHANGED conns
       ELSE /\ conns' = Append(conns, [stmts |-> <<>>, open |-> TRUE,
                                       owner |-> "createConnWithConsistency"])
            /\ call' = [call EXCEPT !.step = stepAfter("Conn", err),
                                    !.conn = Len(conns) + 1]
  /\ UNCHANGED <<handleColNames, handleVals, confWhere, whereClauses, tasks, pc>>

\* _, err = conn.ExecContext(ctx, "SET SESSION TRANSACTION ISOLATION ...")
ExecIsolation ==
  /\ Running("Isolation")
  /\ \E err \in ConnAnswers :
       /\ conns' = [conns EXCEPT ![call.conn] =
            [@ EXCEPT !.stmts = IF err = "" THEN Append(@, isolationQuery) ELSE @,
                      !.owner = IF stepAfter("Isolation", err) = "return" THEN "" ELSE @]]
       /\ call' = [call EXCEPT !.step = stepAfter("Isolation", err),
                               !.out = IF stepAfter("Isolation", err) = "return"
                                       THEN [conn |-> 0, err |-> Annotatef(err, isolationQuery)]
                                       ELSE @]
  /\ UNCHANGED <<handleColNames, handleVals, confWhere, whereClauses, tasks, pc>>

\* _, err = conn.ExecContext(ctx, "START TRANSACTION ..."), and the return.
ExecStartTransaction ==
  /\ Running("Start")
  /\ \E err \in ConnAnswers :
       /\ conns' = [conns EXCEPT ![call.conn] =
            [@ EXCEPT !.stmts = IF err = "" THEN Append(@, startTransactionQuery) ELSE @,
                      !.owner = IF err = "" THEN "caller" ELSE ""]]
       /\ call' = [call EXCEPT !.step = stepAfter("Start", err),
                               !.out = IF err = ""
                                       THEN [conn |-> call.conn, err |-> nil]
                                       ELSE [conn |-> 0, err |-> Annotatef(err, startTransactionQuery)]]
  /\ UNCHANGED <<handleColNames, handleVals, confWhere, whereClauses, tasks, pc>>

NextConn ==
  \/ CallCreateConnWithConsistency
  \/ DbConn
  \/ ExecIsolation
  \/ ExecStartTransaction

SpecConn == InitCall /\ [][NextConn]_vars

Returned == Running("return")

\* C21: a connection is returned only when the isolation statement and then
\* the transaction statement have succeeded on it, in that order; the
\* transaction statement is executed on no connection on which the isolation
\* statement has not succeeded; a call that fails returns no connection, and
\* a call that could not get a connection executes nothing.
C21_ConsistentConnection ==
  call.fn = "createConnWithConsistency" =>
    /\ \A i \in 1..Len(conns) :
         conns[i].stmts \in {<<>>, <<isolationQuery>>,
                             <<isolationQuery, startTransactionQuery>>}
    /\ Returned =>
         /\ (call.out.conn # 0) =>
              /\ call.out.conn = call.conn
              /\ conns[call.out.conn].stmts = <<isolationQuery, startTransactionQuery>>
              /\ call.out.err = nil
         /\ (call.out.err # nil) => call.out.conn = 0
         /\ (call.out.err = nil) => call.out.conn # 0
         /\ (call.conn = 0) => call.out.err # nil

\* The second call returns a connection after the first one failed at the
\* isolation statement.
C21_Witness ==
  /\ Returned
  /\ call.n = 2
  /\ call.out.conn = 2
  /\ conns[1].stmts = <<>>
  /\ conns[2].stmts = <<isolationQuery, startTransactionQuery>>

\* C25: when createConnWithConsistency returns an error after it got a
\* connection from the pool, that connection is closed; no connection is
\* checked out of the pool without somebody holding it.
C25_NoConnectionLeak ==
  call.fn = "createConnWithConsistency" =>
    /\ (Returned /\ call.out.err # nil /\ call.conn # 0) => ~conns[call.conn].open
    /\ \A i \in 1..Len(conns) : conns[i].open => conns[i].owner # ""

\* ---------------------------------------------------- buildOrderByClause
MaxKeyRows == 3

orderByTiDBRowID == <<"O", "R", "D", "E", "R", " ", "B", "Y", " ", BT, "_", "t", "i", "d", "b", "_", "r", "o", "w", "i", "d", BT>>

primaryKeyLoopAnyKey(results) ==
  [i \in 1..Len(results) |-> results[i][2]]

\* The loop of GetPrimaryKeyColumns over the rows <<KEY_NAME, COLUMN_NAME>>.
RECURSIVE primaryKeyLoop(_)
primaryKeyLoop(results) ==
  IF results = <<>> THEN <<>>
  ELSE LET keyName == results[1][1]
           columnName == results[1][2]
       IN (IF keyName = "PRIMARY" THEN <<columnName>> ELSE <<>>)
          \o primaryKeyLoop(Tail(results))

GetPrimaryKeyColumns(db, dbName, tableName) ==
  LET priKeyColsQuery == showIndexQuery(dbName, tableName)
  IN IF db.queryErr # ""
     THEN [cols |-> <<>>, err |-> Annotatef(db.queryErr, priKeyColsQuery),
           queries |-> <<priKeyColsQuery>>]
     ELSE IF db.scanErr # ""
     THEN [cols |-> <<>>, err |-> Annotatef(db.scanErr, priKeyColsQuery),
           queries |-> <<priKeyColsQuery>>]
     ELSE [cols |-> primaryKeyLoop(db.results), err |-> nil,
           queries |-> <<priKeyColsQuery>>]

buildOrderByClause(conf, db, dbName, tableName, hasImplicitRowID) ==
  IF ~conf.SortByPk THEN [clause |-> <<>>, err |-> nil, queries |-> <<>>]
  ELSE IF hasImplicitRowID
  THEN [clause |-> orderByTiDBRowID, err |-> nil, queries |-> <<>>]
  ELSE LET r == GetPrimaryKeyColumns(db, dbName, tableName)
       IN IF r.err # nil
          THEN [clause |-> <<>>, err |-> r.err, queries |-> r.queries]
          ELSE [clause |-> buildOrderByClauseString(r.cols), err |-> nil,
                queries |-> r.queries]

\* The answers of SHOW INDEX: rows <<KEY_NAME, COLUMN_NAME>>, or an error.
KeyRowsOfIndex ==
  {"PRIMARY", "primary_2", "uk"} \X {<<"i", "d">>, <<"n", "a", "m", "e">>}
KeyAnswers ==
  [queryErr : {""}, scanErr : {""},
   results : UNION {[1..n -> KeyRowsOfIndex] : n \in 0..MaxKeyRows}]
  \cup [queryErr : {"bad connection"}, scanErr : {""}, results : {<<>>}]
  \cup [queryErr : {""}, scanErr : {"scan failed"}, results : {<<>>}]

CallBuildOrderByClause ==
  \E sortByPk \in BOOLEAN, hasImplicitRowID \in BOOLEAN, db \in KeyAnswers :
    /\ Idle
    /\ call' = [fn |-> "buildOrderByClause",
                args |-> [conf |-> [SortByPk |-> sortByPk], db |-> db,
                          hasImplicitRowID |-> hasImplicitRowID],
                out |-> buildOrderByClause([SortByPk |-> sortByPk], db, database,
                                           table, hasImplicitRowID)]
    /\ UNCHANGED partitionVars

\* The columns of the rows of the answer whose key name is PRIMARY, in the
\* order of the rows.
PrimaryRows(results) == SelectSeq(results, LAMBDA row : row[1] = "PRIMARY")
QuotedColumns(rows) ==
  Join([i \in 1..Len(rows) |-> <<BT>> \o rows[i][2] \o <<BT>>], <<",">>)

\* C22: with SortByPk off, buildOrderByClause returns the empty clause and
\* queries nothing; with SortByPk on, it returns ORDER BY `_tidb_rowid`
\* for a table with an implicit row id, without a query, and otherwise
\* ORDER BY and the quoted columns of the rows whose key name is PRIMARY,
\* comma-joined in the order of the rows, or the empty clause without such a row.
C22_OrderByPrimaryKey ==
  call.fn = "buildOrderByClause" =>
    /\ ~call.args.conf.SortByPk =>
         call.out = [clause |-> <<>>, err |-> nil, queries |-> <<>>]
    /\ (call.args.conf.SortByPk /\ call.args.hasImplicitRowID) =>
         /\ call.out.clause = <<"O", "R", "D", "E", "R", " ", "B", "Y", " ",
                                BT, "_", "t", "i", "d", "b", "_", "r", "o", "w", "i", "d", BT>>
         /\ call.out.err = nil /\ call.out.queries = <<>>
    /\ (call.args.conf.SortByPk /\ ~call.args.hasImplicitRowID /\ call.out.err = nil) =>
         \A rows \in {PrimaryRows(call.args.db.results)} :
           call.out.clause =
             IF rows = <<>> THEN <<>>
             ELSE <<"O", "R", "D", "E", "R", " ", "B", "Y", " ">> \o QuotedColumns(rows)

\* A joint key: the rows (PRIMARY, id), (uk, id), (PRIMARY, name) give
\* ORDER BY `id`,`name`.
C22_Witness ==
  /\ call.fn = "buildOrderByClause"
  /\ call.args.conf.SortByPk /\ ~call.args.hasImplicitRowID
  /\ call.args.db.results =
       << <<"PRIMARY", <<"i", "d">>>>, <<"uk", <<"i", "d">>>>,
          <<"PRIMARY", <<"n", "a", "m", "e">>>> >>
  /\ call.out.clause = <<"O", "R", "D", "E", "R", " ", "B", "Y", " ", BT, "i", "d", BT, ",", BT, "n", "a", "m", "e", BT>>

\* ------------------------------------------------- more on the builders
\* The rows of SHOW COLUMNS that are not generated columns, in column order.
NonGenerated(results) ==
  SelectSeq(results, LAMBDA r : r.EXTRA # "STORED GENERATED" /\ r.EXTRA # "VIRTUAL GENERATED")

\* C23: buildSelectField selects no generated column: it returns * when
\* complete-insert is off and no column is generated, and otherwise the
\* quoted names of the columns that are not generated, comma-joined in
\* column order; the count is the number of columns that are not generated.
C23_NoGeneratedColumn ==
  call.fn = "buildSelectField" =>
    \A kept \in {NonGenerated(call.args.results)} :
      /\ call.out.n = Len(kept)
      /\ call.out.fields =
           IF ~call.args.completeInsert /\ Len(kept) = Len(call.args.results)
           THEN <<"*">>
           ELSE Join([i \in 1..Len(kept) |-> QuoteIdent(kept[i].FIELD)], <<",">>)

\* Without complete-insert, the columns id and (generated) q`t: only `id`
\* is selected, and one field is counted.
C23_Witness ==
  /\ call.fn = "buildSelectField"
  /\ ~call.args.completeInsert
  /\ call.args.results = << [FIELD |-> <<"i", "d">>, EXTRA |-> ""],
                            [FIELD |-> <<"q", BT, "t">>, EXTRA |-> "VIRTUAL GENERATED"] >>
  /\ call.out = [fields |-> <<BT, "i", "d", BT>>, n |-> 1]

\* ---------------------------------------------------- parseSnapshotToTSO
\* Unsigned 64-bit numbers are decimal texts here, TLC's integers having 32
\* bits: "0" .. "18446744073709551615", without leading zeros.
uint64Max == <<"1", "8", "4", "4", "6", "7", "4", "4", "0", "7", "3", "7", "0", "9", "5", "5", "1", "6", "1", "5">>

DigitOf(c) == CHOOSE d \in 0..9 : DigitChars[d + 1] = c
IsDecimal(text) == text # <<>> /\ \A i \in 1..Len(text) : text[i] \in DigitSet

RECURSIVE TrimZeros(_)
TrimZeros(ds) == IF Len(ds) > 1 /\ ds[1] = "0" THEN TrimZeros(Tail(ds)) ELSE ds

\* a < b for decimal texts of the same length.
RECURSIVE DecLess(_, _)
DecLess(a, b) ==
  IF a = <<>> THEN FALSE
  ELSE DigitOf(a[1]) < DigitOf(b[1]) \/ (a[1] = b[1] /\ DecLess(Tail(a), Tail(b)))
\* a <= b for decimal texts without leading zeros.
DecLeq(a, b) == Len(a) < Len(b) \/ (Len(a) = Len(b) /\ (a = b \/ DecLess(a, b)))

ParseUint64NoRange(text) ==
  IF IsDecimal(text) THEN [n |-> TrimZeros(text), err |-> ""]
  ELSE [n |-> <<"0">>, err |-> "invalid syntax"]

\* strconv.ParseUint(text, 10, 64): a sign, a space or an empty text is a
\* syntax error, a value above 2^64 - 1 a range error.
ParseUint64(text) ==
  IF ~IsDecimal(text) THEN [n |-> <<"0">>, err |-> "invalid syntax"]
  ELSE IF DecLeq(TrimZeros(text), uint64Max) THEN [n |-> TrimZeros(text), err |-> ""]
  ELSE [n |-> uint64Max, err |-> "value out of range"]

\* ds * k + carry in decimal, for k below 10^6.
RECURSIVE TimesCarry(_, _, _)
TimesCarry(ds, k, carry) ==
  IF ds = <<>> THEN (IF carry = 0 THEN <<>> ELSE NumText(carry))
  ELSE LET v == DigitOf(ds[Len(ds)]) * k + carry
       IN TimesCarry(SubSeq(ds, 1, Len(ds) - 1), k, v \div 10) \o <<DigitChars[(v % 10) + 1]>>

tsoOfNoShift(t) == TrimZeros(t \o <<"0", "0", "0">>)

\* (uint64(t) << 18) * 1000.  For every timestamp the server gives the
\* product is below 2^64 (t < 2^36), so that no bit is lost.
tsoOf(t) == TrimZeros(TimesCarry(t, 262144, 0) \o <<"0", "0", "0">>)

unixTimestampQuery(snapshot) ==
  <<"S", "E", "L", "E", "C", "T", " ", "u", "n", "i", "x", "_", "t", "i", "m", "e", "s", "t", "a", "m", "p", "(", "\"">> \o snapshot \o <<"\"", ")">>

\* pool.QueryRow answers [err, valid, t]: a scan error, NULL, or a timestamp.
parseSnapshotToTSO(pool, snapshot) ==
  LET parsed == ParseUint64(snapshot)
  IN IF parsed.err = "" THEN [tso |-> parsed.n, err |-> nil, queries |-> <<>>]
     ELSE IF pool.err # ""
     THEN [tso |-> <<"0">>, err |-> Annotatef(pool.err, unixTimestampQuery(snapshot)),
           queries |-> <<unixTimestampQuery(snapshot)>>]
     ELSE IF ~pool.valid
     THEN [tso |-> <<"0">>,
           err |-> [cause |-> "snapshot %s format not supported", sql |-> snapshot],
           queries |-> <<unixTimestampQuery(snapshot)>>]
     ELSE [tso |-> tsoOf(pool.t), err |-> nil,
           queries |-> <<unixTimestampQuery(snapshot)>>]

Snapshots ==
  { <<>>, <<"0">>, <<"7">>, <<"0", "0", "7">>, <<"4", "1", "7", "7", "7", "3", "9", "5", "1", "3", "1", "2", "4", "6", "1", "8", "2", "5">>,
    <<"1", "8", "4", "4", "6", "7", "4", "4", "0", "7", "3", "7", "0", "9", "5", "5", "1", "6", "1", "5">>, <<"1", "8", "4", "4", "6", "7", "4", "4", "0", "7", "3", "7", "0", "9", "5", "5", "1", "6", "1", "6">>,
    <<"9", "9", "9", "9", "9", "9", "9", "9", "9", "9", "9", "9", "9", "9", "9", "9", "9", "9", "9", "9">>, <<"1", "0", "0", "0", "0", "0", "0", "0", "0", "0", "0", "0", "0", "0", "0", "0", "0", "0", "0", "0", "0">>,
    <<"2", "0", "2", "0", "/", "0", "7", "/", "1", "8", " ", "2", "0", ":", "3", "1", ":", "5", "0">>, <<"X", "X", "Y", "Y", "Z", "Z">>, <<"-", "1">> }
Timestamps == { <<"0">>, <<"1">>, <<"1", "5", "9", "5", "0", "7", "5", "5", "1", "0">>, <<"2", "1", "4", "7", "4", "8", "3", "6", "4", "7">>, <<"3", "2", "5", "3", "6", "7", "7", "1", "1", "9", "9">> }
TimestampAnswers ==
  [err : {""}, valid : {TRUE}, t : Timestamps]
  \cup [err : {""}, valid : {FALSE}, t : {<<"0">>}]
  \cup [err : {"sql: no rows in result set", "context canceled"}, valid : {FALSE}, t : {<<"0">>}]

CallParseSnapshotToTSO ==
  \E snapshot \in Snapshots, pool \in TimestampAnswers :
    /\ Idle
    /\ call' = [fn |-> "parseSnapshotToTSO",
                args |-> [pool |-> pool, snapshot |-> snapshot],
                out |-> parseSnapshotToTSO(pool, snapshot)]
    /\ UNCHANGED partitionVars

\* Long division of a decimal text by k: [q, r].
RECURSIVE DivSmall(_, _, _)
DivSmall(ds, k, rem) ==
  IF ds = <<>> THEN [q |-> <<>>, r |-> rem]
  ELSE LET v == rem * 10 + DigitOf(ds[1])
           rest == DivSmall(Tail(ds), k, v % k)
       IN [q |-> <<DigitChars[(v \div k) + 1]>> \o rest.q, r |-> rest.r]

\* tso = (t * 2^18) * 1000, told by dividing tso.
IsShiftedTimestamp(tso, t) ==
  /\ Len(tso) > 3 \/ tso = <<"0">>
  /\ \A thousand \in {DivSmall(tso, 1000, 0)} :
       /\ thousand.r = 0
       /\ \A shifted \in {DivSmall(TrimZeros(thousand.q), 262144, 0)} :
            shifted.r = 0 /\ TrimZeros(shifted.q) = t

Answered24 == call.args.pool.err = "" /\ call.args.pool.valid

\* C24 as the spec has it: every unsigned decimal integer is returned as it
\* is, without a query.
C24_Original ==
  (call.fn = "parseSnapshotToTSO" /\ IsDecimal(call.args.snapshot)) =>
    /\ call.out.tso = TrimZeros(call.args.snapshot)
    /\ call.out.err = nil /\ call.out.queries = <<>>

\* C24: parseSnapshotToTSO returns the number itself, without a query, when
\* the snapshot is an unsigned decimal integer of at most 2^64 - 1; for any
\* other text it asks the server once and returns (t << 18) * 1000 for the
\* timestamp t, and 0 with the error "format not supported" for NULL.
C24_SnapshotToTSO ==
  call.fn = "parseSnapshotToTSO" =>
    IF IsDecimal(call.args.snapshot)
       /\ DecLeq(TrimZeros(call.args.snapshot), uint64Max)
    THEN /\ call.out.tso = TrimZeros(call.args.snapshot)
         /\ call.out.err = nil /\ call.out.queries = <<>>
    ELSE /\ Len(call.out.queries) = 1
         /\ Answered24 =>
              /\ IsShiftedTimestamp(call.out.tso, call.args.pool.t)
              /\ call.out.err = nil
         /\ (call.args.pool.err = "" /\ ~call.args.pool.valid) =>
              /\ call.out.tso = <<"0">>
              /\ call.out.err.cause = "snapshot %s format not supported"
              /\ call.out.err.sql = call.args.snapshot

\* 2^64 is asked of the server like any other text, and NULL is answered:
\* the call fails with "format not supported" after one query.
C24_Witness ==
  /\ call.fn = "parseSnapshotToTSO"
  /\ call.args.snapshot = <<"1", "8", "4", "4", "6", "7", "4", "4", "0", "7", "3", "7", "0", "9", "5", "5", "1", "6", "1", "6">>
  /\ call.args.pool.err = "" /\ ~call.args.pool.valid
  /\ call.out.tso = <<"0">>
  /\ call.out.err.cause = "snapshot %s format not supported"
  /\ Len(call.out.queries) = 1

\* ------------------------------------------------- tables dumped whole
\* C26: buildWhereClauses returns no predicate for a table without ordering
\* column and for a table without boundary; the table is then dumped as one
\* chunk, with index 0, whose query selects every row the caller's filter
\* lets through, and has no WHERE at all without a filter.
C26_WholeTable ==
  Built =>
    /\ (Len(handleColNames) = 0 \/ NumBounds = 0) => whereClauses = <<>>
    /\ (pc = "done" /\ whereClauses = <<>>) =>
         /\ Len(tasks) = 1
         /\ tasks[1].ChunkIndex = 0
         /\ \A row \in [{handleColNames[i] : i \in 1..Len(handleColNames)}
                           \cup {filterCol, <<"a">>} -> Vals] :
              Selects(QueryCondition(tasks[1].query), row)
                <=> (confWhere = <<>> \/ Holds(ClauseCondition(confWhere), row))
         /\ confWhere = <<>> => ~HasWhere(Lex(tasks[1].query, 1))

\* A table with the key (a) and no boundary, dumped whole without filter.
C26_Witness ==
  /\ pc = "done"
  /\ handleColNames = KeyCols(1) /\ handleVals = <<>> /\ confWhere = <<>>
  /\ whereClauses = <<>>
  /\ Len(tasks) = 1 /\ ~HasWhere(Lex(tasks[1].query, 1))

\* --------------------------------------------------- GetPartitionTableIDs
MaxHistogramRows == 2
MaxStatsRows == 2

showStatsHistogramsSQL == "SHOW STATS_HISTOGRAMS"
selectStatsHistogramsSQL ==
  "SELECT TABLE_ID,FROM_UNIXTIME(VERSION DIV 262144 DIV 1000,'%Y-%m-%d %H:%i:%s') AS UPDATE_TIME,DISTINCT_COUNT FROM mysql.stats_histograms"

EmptyMap == [k \in {} |-> 0]

saveMapLoopAnyTable(results, tables, saveMap) ==
  IF results = <<>> THEN saveMap
  ELSE [k \in {<<results[i][4], results[i][5]>> : i \in {j \in 1..Len(results) : results[j][3] # ""}} |->
          LET i == CHOOSE i \in 1..Len(results) :
                     /\ results[i][3] # "" /\ <<results[i][4], results[i][5]>> = k
                     /\ \A j \in (i + 1)..Len(results) :
                          results[j][3] = "" \/ <<results[j][4], results[j][5]>> # k
          IN [dbName |-> results[i][1], tbName |-> results[i][2],
              partitionName |-> results[i][3]]]

\* The first loop: saveMap[updateTime][distinctCount] is the last row
\* <<DB_NAME, TABLE_NAME, PARTITION_NAME, UPDATE_TIME, DISTINCT_COUNT>> with
\* a partition name and a table of tables.
RECURSIVE saveMapLoop(_, _, _)
saveMapLoop(results, tables, saveMap) ==
  IF results = <<>> THEN saveMap
  ELSE LET oneRow == results[1]
           dbName == oneRow[1]
           tbName == oneRow[2]
           partitionName_ == oneRow[3]
           updateTime == oneRow[4]
           distinctCount == oneRow[5]
       IN IF partitionName_ = "" THEN saveMapLoop(Tail(results), tables, saveMap)
          ELSE IF dbName \in DOMAIN tables /\ tbName \in tables[dbName]
          THEN saveMapLoop(Tail(results), tables,
                 (<<updateTime, distinctCount>> :>
                    [dbName |-> dbName, tbName |-> tbName, partitionName |-> partitionName_])
                 @@ saveMap)
          ELSE saveMapLoop(Tail(results), tables, saveMap)

\* The handler of the second listing, row after row <<TABLE_ID, UPDATE_TIME,
\* DISTINCT_COUNT>>; the scan of row number fail fails (0: none does).
RECURSIVE partitionIDsLoop(_, _, _, _, _)
partitionIDsLoop(rows, fail, n, saveMap, partitionIDs) ==
  IF rows = <<>> THEN [partitionIDs |-> partitionIDs, err |-> ""]
  ELSE IF fail = n THEN [partitionIDs |-> partitionIDs, err |-> "scan failed"]
  ELSE LET tableID == rows[1][1]
           key == <<rows[1][2], rows[1][3]>>
       IN IF key \in DOMAIN saveMap
          THEN LET partition == saveMap[key]
               IN partitionIDsLoop(Tail(rows), fail, n + 1, saveMap,
                    (<<partition.dbName, partition.tbName, partition.partitionName>>
                       :> tableID) @@ partitionIDs)
          ELSE partitionIDsLoop(Tail(rows), fail, n + 1, saveMap, partitionIDs)

\* [partitionIDs, isNil, err, queries]: the map from <<dbName, tbName,
\* partitionName>> to the table ID, whether nil is returned for it, the
\* error and the queries made.
GetPartitionTableIDs(db, tables) ==
  IF db.histogramsErr # ""
  THEN [partitionIDs |-> EmptyMap, isNil |-> TRUE, err |-> db.histogramsErr,
        sql |-> showStatsHistogramsSQL, queries |-> <<showStatsHistogramsSQL>>]
  ELSE LET saveMap == saveMapLoop(db.histograms, tables, EmptyMap)
       IN IF DOMAIN saveMap = {}
          THEN [partitionIDs |-> EmptyMap, isNil |-> FALSE, err |-> "",
                sql |-> "", queries |-> <<showStatsHistogramsSQL>>]
          ELSE IF db.statsErr # ""
          THEN [partitionIDs |-> EmptyMap, isNil |-> FALSE, err |-> db.statsErr,
                sql |-> selectStatsHistogramsSQL,
                queries |-> <<showStatsHistogramsSQL, selectStatsHistogramsSQL>>]
          ELSE LET r == partitionIDsLoop(db.stats, db.fail, 1, saveMap, EmptyMap)
               IN [partitionIDs |-> r.partitionIDs, isNil |-> FALSE, err |-> r.err,
                   sql |-> IF r.err = "" THEN "" ELSE selectStatsHistogramsSQL,
                   queries |-> <<showStatsHistogramsSQL, selectStatsHistogramsSQL>>]

\* The tables asked for, and what the two listings answer.
RequestedTables == ("d" :> {"t1"})
StatsPairs == {<<"u1", "1">>, <<"u1", "2">>, <<"u2", "1">>}
HistogramRows ==
  {<<n[1], n[2], n[3], p[1], p[2]>> :
     n \in {<<"d", "t1", "">>, <<"d", "t1", "p0">>, <<"d", "t1", "p1">>,
            <<"d", "t2", "p0">>, <<"e", "t1", "p0">>},
     p \in StatsPairs}
StatsRows == {<<id, p[1], p[2]>> : id \in {1, 2}, p \in StatsPairs}
HistogramAnswers ==
  [histogramsErr : {""},
   histograms : UNION {[1..n -> HistogramRows] : n \in 0..MaxHistogramRows},
   statsErr : {""},
   stats : UNION {[1..n -> StatsRows] : n \in 0..MaxStatsRows},
   fail : 0..MaxStatsRows]
  \cup [histogramsErr : {"bad connection"}, histograms : {<<>>}, statsErr : {""},
        stats : {<<>>}, fail : {0}]
  \cup [histogramsErr : {""}, histograms : [1..1 -> HistogramRows],
        statsErr : {"bad connection"}, stats : {<<>>}, fail : {0}]

CallGetPartitionTableIDs ==
  /\ Idle
  /\ \E db \in {a \in HistogramAnswers : a.fail <= Len(a.stats)} :
       /\ call' = [fn |-> "GetPartitionTableIDs",
                   args |-> [db |-> db, tables |-> RequestedTables],
                   out |-> GetPartitionTableIDs(db, RequestedTables)]
       /\ UNCHANGED partitionVars

NextPartitionIDs == CallGetPartitionTableIDs

SpecPartitionIDs == InitCall /\ [][NextPartitionIDs]_vars

\* The rows of the histogram listing that qualify: a partition name, and a
\* table that is asked for.
Qualifies(h, tables) == h[3] # "" /\ h[1] \in DOMAIN tables /\ h[2] \in tables[h[1]]

\* C27: an entry (database, table, partition) -> id is in the result only if
\* the histogram listing has a qualifying row for the three names and the
\* second listing has a row with that id and the same (update time, distinct
\* count) pair; and when no row of the histogram listing qualifies, the
\* second listing is not queried and the result is empty, without error.
C27_PartitionIDsJoin ==
  call.fn = "GetPartitionTableIDs" =>
    /\ \A k \in DOMAIN call.out.partitionIDs :
         \E i \in 1..Len(call.args.db.histograms), j \in 1..Len(call.args.db.stats) :
           \A h \in {call.args.db.histograms[i]}, s \in {call.args.db.stats[j]} :
             /\ Qualifies(h, call.args.tables)
             /\ <<h[1], h[2], h[3]>> = k
             /\ s[1] = call.out.partitionIDs[k]
             /\ s[2] = h[4] /\ s[3] = h[5]
    /\ (call.args.db.histogramsErr = ""
        /\ \A i \in 1..Len(call.args.db.histograms) :
             ~Qualifies(call.args.db.histograms[i], call.args.tables)) =>
         /\ call.out.queries = <<showStatsHistogramsSQL>>
         /\ DOMAIN call.out.partitionIDs = {} /\ ~call.out.isNil
         /\ call.out.err = ""

\* Two partitions of t1 get the ids of the rows with their pairs.
C27_Witness ==
  /\ call.fn = "GetPartitionTableIDs"
  /\ call.args.db.histograms =
       << <<"d", "t1", "p0", "u1", "1">>, <<"d", "t1", "p1", "u2", "1">> >>
  /\ call.args.db.stats = << <<2, "u2", "1">>, <<1, "u1", "1">> >>
  /\ call.out.err = ""
  /\ call.out.partitionIDs = (<<"d", "t1", "p0">> :> 1) @@ (<<"d", "t1", "p1">> :> 2)

\* ------------------------------------------------ more on the chunk size
\* C28: whatever the average row length, GetSuitableRows gives between 1
\* and 1000000 rows, and never 0.
C28_AtLeastOneRow ==
  call.fn = "GetSuitableRows" => (call.out >= 1 /\ call.out <= 1000000)

\* --------------------------------------------------- simpleQueryWithArgs
\* simpleQueryWithArgs step by step.  The server answers the query with an
\* error, or with rows of which `delivered` are read before rows.Next gives
\* false (all of them unless rowsErr is an error); the handler fails at the
\* row number failAt (0: at none).  The cursor is "none" before there are
\* rows, then "open", then "closed".
MaxResultRows == 3

annotateArgs(cause, sql, args) ==
  IF cause = "" THEN [cause |-> "", sql |-> "", args |-> <<>>]
  ELSE [cause |-> cause, sql |-> sql, args |-> args]

afterHandleOneRowIgnoringError(err) == "next"

\* Where the loop goes after handleOneRow returned err.
afterHandleOneRow(err) == IF err # "" THEN "return" ELSE "next"

QueryRunning(step) == call.fn = "simpleQueryWithArgs" /\ call.step = step

ResultRows == UNION {[1..n -> {"r1", "r2"}] : n \in 0..MaxResultRows}
QueryAnswers ==
  {a \in [queryErr : {""}, rows : ResultRows, delivered : 0..MaxResultRows,
          rowsErr : {"", "bad connection"}, failAt : 0..MaxResultRows] :
     /\ a.delivered <= Len(a.rows)
     /\ a.rowsErr = "" => a.delivered = Len(a.rows)
     /\ a.failAt <= Len(a.rows)}
  \cup [queryErr : {"syntax error"}, rows : {<<>>}, delivered : {0},
        rowsErr : {""}, failAt : {0}]

CallSimpleQueryWithArgs ==
  /\ Idle
  /\ \E answer \in QueryAnswers, args \in {<<>>, <<"d", "t">>} :
       call' = [fn |-> "simpleQueryWithArgs", step |-> "query",
                args |-> [sql |-> "SELECT ...", args |-> args, answer |-> answer],
                handled |-> <<>>, cursor |-> "none",
                out |-> annotateArgs("", "", <<>>)]
  /\ UNCHANGED partitionVars

\* rows, err := conn.QueryContext(...); defer rows.Close()
QueryContext ==
  /\ QueryRunning("query")
  /\ call' = IF call.args.answer.queryErr # ""
             THEN [call EXCEPT !.step = "return",
                               !.out = annotateArgs(call.args.answer.queryErr,
                                                    call.args.sql, call.args.args)]
             ELSE [call EXCEPT !.step = "next", !.cursor = "open"]
  /\ UNCHANGED partitionVars

\* One turn of `for rows.Next()`: the next row goes to the handler, or the
\* rows are over; the cursor is closed before every return.
RowsNext ==
  /\ QueryRunning("next")
  /\ call' =
       IF Len(call.handled) < call.args.answer.delivered
       THEN LET n == Len(call.handled) + 1
                err == IF call.args.answer.failAt = n THEN "handler failed" ELSE ""
            IN IF afterHandleOneRow(err) = "return"
               THEN [call EXCEPT !.handled = Append(@, call.args.answer.rows[n]),
                                 !.cursor = "closed", !.step = "return",
                                 !.out = annotateArgs(err, call.args.sql, call.args.args)]
               ELSE [call EXCEPT !.handled = Append(@, call.args.answer.rows[n])]
       ELSE [call EXCEPT !.cursor = "closed", !.step = "return",
                         !.out = annotateArgs(call.args.answer.rowsErr,
                                              call.args.sql, call.args.args)]
  /\ UNCHANGED partitionVars

NextQuery == CallSimpleQueryWithArgs \/ QueryContext \/ RowsNext

SpecQuery == InitCall /\ [][NextQuery]_vars

\* C29: the handler gets the rows one by one in the order of the result;
\* once it has failed on a row it gets no other row, and the call returns
\* its error with the SQL text and the arguments; when the call returns the
\* cursor is closed, unless the query failed and there is none.
C29_RowsInOrderCursorClosed ==
  call.fn = "simpleQueryWithArgs" =>
    \A answer \in {call.args.answer} :
      /\ Len(call.handled) <= Len(answer.rows)
      /\ call.handled = SubSeq(answer.rows, 1, Len(call.handled))
      /\ answer.failAt # 0 => Len(call.handled) <= answer.failAt
      /\ call.step = "return" =>
           /\ call.cursor = IF answer.queryErr # "" THEN "none" ELSE "closed"
           /\ (answer.queryErr = "" /\ answer.failAt \in 1..answer.delivered) =>
                /\ Len(call.handled) = answer.failAt
                /\ call.out = [cause |-> "handler failed", sql |-> call.args.sql,
                               args |-> call.args.args]

\* Three rows, the handler failing on the second: two rows handled, the
\* error returned, the cursor closed.
C29_Witness ==
  /\ QueryRunning("return")
  /\ call.args.answer.rows = <<"r1", "r2", "r1">>
  /\ call.args.answer.failAt = 2 /\ call.args.answer.delivered = 3
  /\ call.handled = <<"r1", "r2">>
  /\ call.cursor = "closed"
  /\ call.out.cause = "handler failed"

\* ------------------------------------------------- more on the table list
TypeName(tableType) == IF tableType = TableTypeBase THEN "BASE TABLE" ELSE "VIEW"
RequestedTypes == {call.args.tableTypes[i] : i \in 1..Len(call.args.tableTypes)}
RequestedNames == {call.args.databaseNames[i] : i \in 1..Len(call.args.databaseNames)}

\* The server answers the query it was asked: the rows of
\* INFORMATION_SCHEMA.TABLES have one of the table types of the WHERE clause.
HonoursWhere ==
  call.args.asap =>
    \A i \in 1..Len(call.args.db.rows) :
      \E tableType \in RequestedTypes : call.args.db.rows[i].vals[3] = TypeName(tableType)

\* The entry e, listed under the database d, is a row the server gave for d.
ListedFromRow(d, e) ==
  IF call.args.asap
  THEN \E i \in 1..Len(call.args.db.rows) :
         \A vals \in {call.args.db.rows[i].vals} :
           vals[1] = d /\ vals[2] = e.Name /\ vals[3] = TypeName(e.Type)
  ELSE \E i \in 1..Len(call.args.db.status[d].results) :
         \A oneRow \in {call.args.db.status[d].results[i]} :
           /\ oneRow[1] = e.Name
           /\ e.Type = TableTypeView <=> (oneRow[2] = "" /\ oneRow[4] \in {"", "VIEW"})
           /\ e.Type = TableTypeBase <=> oneRow[2] # ""

\* C30: when ListAllDatabasesTables succeeds, its result has an entry for
\* each database asked for and for no other, and every table listed under a
\* database is a table of that database, of one of the types asked for; a
\* SHOW TABLE STATUS row without engine is a view when its comment is empty
\* or VIEW, and is not listed otherwise.
C30_TablesOfTheirDatabase ==
  (call.fn = "ListAllDatabasesTables" /\ call.out.err = nil /\ HonoursWhere) =>
    /\ DOMAIN call.out.tables = RequestedNames
    /\ \A d \in DOMAIN call.out.tables :
         \A k \in 1..Len(call.out.tables[d]) :
           /\ call.out.tables[d][k].Type \in RequestedTypes
           /\ ListedFromRow(d, call.out.tables[d][k])

NextMeta ==
  \/ CallBuildOrderByClause
  \/ CallParseSnapshotToTSO

SpecMeta == InitCall /\ [][NextMeta]_vars

====
